---- MODULE Spec2Model ----
(***************************************************************************)
(* gigpad: the chord transposition engine (ChordTransposer) and the song   *)
(* text parser (ChordProParser), the song cache of the data loader         *)
(* (DataLoader), the setlist storage (SetlistStorageService) with the      *)
(* migration of legacy setlists (SetlistMigrationService), and the         *)
(* transpose and capo controls of the views with SongOverrideStorage.      *)
(*                                                                         *)
(* A JavaScript string is modelled as a sequence of one-character strings, *)
(* so that indexing, substring, trim, regular-expression matching and      *)
(* concatenation are computed character by character as the code does.     *)
(* "Am7" is <<"A", "m", "7">>.                                             *)
(***************************************************************************)
EXTENDS Integers, Sequences, FiniteSets, TLC

VARIABLES
    chord,      \* transposer: the chord string handed to the engine
    semitones,  \* transposer: the semitone / capo argument of the last call
    fromKey,    \* transposer: transposeChord's fromKey
    toKey,      \* transposer: transposeChord's toKey
    result,     \* transposer: the string the last call returned
    back,       \* transposer: transposeChordBySemitones(result, -semitones)
    op,         \* transposer: which call produced result
    suggestions, \* transposer: the list getSuggestedCapoPositions returned
    keys,       \* transposer: the list getAllKeys returned
    content,    \* parser: the source text handed to parseChordPro
    song,       \* parser: parseChordPro(content, id)
    output,     \* parser: songToChordPro(song)
    song2,      \* parser: parseChordPro(output, id)
    pc,         \* parser: position in input -> parsed -> serialized -> reparsed
    individualSongsCache, \* loader: the Map from song id to the cached Song
    calls,      \* loader: each getSongById call in flight, and where it stands
    parsed,     \* loader: per song id, the parseChordPro calls since clearCache
    returned,   \* loader: per song id, the Songs handed out since clearCache
    made,       \* loader: the number of Song objects created so far
    SETLISTS,   \* setlists: localStorage item 'gigpad_setlists'
    METADATA,   \* setlists: localStorage item 'gigpad_setlists_metadata'
    VERSION,    \* setlists: localStorage item 'gigpad_setlists_version'
    songLibrary, \* setlists: the ids of the songs that can be added
    outcome,    \* setlists: the last storage call and what it returned or threw
    migrations, \* setlists: each migrateLegacySetlists call, and where it stands
    migrated,   \* setlists: per legacy setlist, the setlists migration created
    started,    \* setlists: the number of migrateLegacySetlists calls so far
    view,       \* controls: the view that shows the song
    selectedSong, \* controls: the song's own originalKey and capoPosition
    setlistSong, \* controls: the setlist entry's customKey and customCapo
    currentKey, \* controls: the key the view shows
    currentCapo, \* controls: the capo the view shows
    overrides,  \* controls: the song's entry in localStorage 'sing-song-overrides'
    trail       \* controls: the last controls pressed and the key before each

tvars == <<chord, semitones, fromKey, toKey, result, back, op, suggestions, keys>>
pvars == <<content, song, output, song2, pc>>
lvars == <<individualSongsCache, calls, parsed, returned, made>>
svars == <<SETLISTS, METADATA, VERSION, songLibrary, outcome, migrations, migrated, started>>
cvars == <<view, selectedSong, setlistSong, currentKey, currentCapo, overrides, trail>>
vars == <<chord, semitones, fromKey, toKey, result, back, op, suggestions, keys,
          content, song, output, song2, pc,
          individualSongsCache, calls, parsed, returned, made,
          SETLISTS, METADATA, VERSION, songLibrary, outcome, migrations, migrated, started,
          view, selectedSong, setlistSong, currentKey, currentCapo, overrides, trail>>

----------------------------------------------------------------------------
(* Bounds of the model *)

\* semitone arguments range over -MaxSemitones..MaxSemitones (beyond one octave)
MaxSemitones == 13
\* capo arguments range over 0..MaxCapo
MaxCapo == 12
\* a source text has at most MaxLines lines
MaxLines == 3
\* getSongById is called by at most MaxCallers callers at a time
MaxCallers == 2
\* at most MaxSongs loads are started for which no Song is cached
MaxSongs == 3

----------------------------------------------------------------------------
(* JavaScript string primitives on character sequences *)

\* String.prototype.trim's white space, as far as the model's alphabet goes
IsSpace(c) == c \in {" ", "\t", "\r"}

RECURSIVE TrimLeft(_)
TrimLeft(s) ==
    IF s = <<>> THEN <<>>
    ELSE IF IsSpace(Head(s)) THEN TrimLeft(Tail(s)) ELSE s

RECURSIVE TrimRight(_)
TrimRight(s) ==
    IF s = <<>> THEN <<>>
    ELSE IF IsSpace(s[Len(s)]) THEN TrimRight(SubSeq(s, 1, Len(s) - 1)) ELSE s

\* s.trim()
Trim(s) == TrimRight(TrimLeft(s))

\* s.startsWith(p)
StartsWith(s, p) == Len(p) <= Len(s) /\ SubSeq(s, 1, Len(p)) = p

\* s.endsWith(p)
EndsWith(s, p) == Len(p) <= Len(s) /\ SubSeq(s, Len(s) - Len(p) + 1, Len(s)) = p

\* s.includes(p)
Includes(s, p) ==
    \E i \in 1..(Len(s) - Len(p) + 1) : SubSeq(s, i, i + Len(p) - 1) = p

\* s.indexOf(c) for a one-character c, 1-based; 0 when absent (JavaScript's -1)
IndexOf(s, c) ==
    IF \E i \in 1..Len(s) : s[i] = c
    THEN CHOOSE i \in 1..Len(s) : s[i] = c /\ \A j \in 1..(i - 1) : s[j] # c
    ELSE 0

\* s.substring(k) with a 0-based k in 0..s.length
From(s, k) == SubSeq(s, k + 1, Len(s))

\* JavaScript's a % 12: the remainder takes the sign of the dividend
JsMod12(a) == IF a >= 0 THEN a % 12 ELSE -((-a) % 12)

----------------------------------------------------------------------------
(* ChordTransposer *)

\* CHROMATIC_SCALE, indexed 0..11
CHROMATIC_SCALE ==
    [i \in 0..11 |->
        CASE i = 0 -> <<"C">>       [] i = 1 -> <<"C", "#">>
          [] i = 2 -> <<"D">>       [] i = 3 -> <<"D", "#">>
          [] i = 4 -> <<"E">>       [] i = 5 -> <<"F">>
          [] i = 6 -> <<"F", "#">>  [] i = 7 -> <<"G">>
          [] i = 8 -> <<"G", "#">>  [] i = 9 -> <<"A">>
          [] i = 10 -> <<"A", "#">> [] i = 11 -> <<"B">>]

\* MatchNote with a case-insensitive letter class, /^([A-Ga-g][#b]?)/
MatchNote_IgnoreCase(s) ==
    IF s = <<>> \/ s[1] \notin {"A", "B", "C", "D", "E", "F", "G",
                                "a", "b", "c", "d", "e", "f", "g"} THEN <<>>
    ELSE IF Len(s) >= 2 /\ s[2] \in {"#", "b"} THEN SubSeq(s, 1, 2)
    ELSE SubSeq(s, 1, 1)

\* the regular expression /^([A-G][#b]?)/: the matched prefix, <<>> for no match
MatchNote(s) ==
    IF s = <<>> \/ s[1] \notin {"A", "B", "C", "D", "E", "F", "G"} THEN <<>>
    ELSE IF Len(s) >= 2 /\ s[2] \in {"#", "b"} THEN SubSeq(s, 1, 2)
    ELSE SubSeq(s, 1, 1)

\* parseChord: ok is FALSE for the null return; hasBass is FALSE for an undefined bass
parseChord(c) ==
    LET slashIndex == IndexOf(c, "/")
        hasBass    == slashIndex # 0
        bass       == IF hasBass THEN SubSeq(c, slashIndex + 1, Len(c)) ELSE <<>>
        mainChord  == IF hasBass THEN SubSeq(c, 1, slashIndex - 1) ELSE c
        root       == MatchNote(mainChord)
    IN  IF root = <<>>
        THEN [ok |-> FALSE, root |-> <<>>, quality |-> <<>>, hasBass |-> FALSE, bass |-> <<>>]
        ELSE [ok |-> TRUE, root |-> root, quality |-> From(mainChord, Len(root)),
              hasBass |-> hasBass, bass |-> bass]

\* parseNote: the leading note token of a key string, or the string itself
parseNote(note) ==
    IF MatchNote(note) # <<>> THEN MatchNote(note) ELSE note

\* getNoteIndex: noteMap[note] ?? 0
getNoteIndex(note) ==
    CASE note \in {<<"C">>, <<"B", "#">>}      -> 0
      [] note \in {<<"C", "#">>, <<"D", "b">>} -> 1
      [] note = <<"D">>                        -> 2
      [] note \in {<<"D", "#">>, <<"E", "b">>} -> 3
      [] note \in {<<"E">>, <<"F", "b">>}      -> 4
      [] note \in {<<"F">>, <<"E", "#">>}      -> 5
      [] note \in {<<"F", "#">>, <<"G", "b">>} -> 6
      [] note = <<"G">>                        -> 7
      [] note \in {<<"G", "#">>, <<"A", "b">>} -> 8
      [] note = <<"A">>                        -> 9
      [] note \in {<<"A", "#">>, <<"B", "b">>} -> 10
      [] note \in {<<"B">>, <<"C", "b">>}      -> 11
      [] OTHER                                 -> 0

\* getPreferredSpelling without the flat branch
getPreferredSpelling_AlwaysSharp(newNote, originalNote) == newNote

\* getPreferredSpelling: flat names when the original token contains 'b'
getPreferredSpelling(newNote, originalNote) ==
    IF Includes(originalNote, <<"b">>)
    THEN CASE newNote = <<"C", "#">> -> <<"D", "b">>
           [] newNote = <<"D", "#">> -> <<"E", "b">>
           [] newNote = <<"F", "#">> -> <<"G", "b">>
           [] newNote = <<"G", "#">> -> <<"A", "b">>
           [] newNote = <<"A", "#">> -> <<"B", "b">>
           [] OTHER                  -> newNote
    ELSE newNote

\* transposeNote with a negative remainder mirrored instead of wrapped
transposeNote_Mirrored(note, n) ==
    LET currentIndex == getNoteIndex(note)
        rem          == JsMod12(currentIndex + n)
        newIndex     == IF rem < 0 THEN -rem ELSE rem
    IN  getPreferredSpelling(CHROMATIC_SCALE[newIndex], note)

\* transposeNote
transposeNote(note, n) ==
    LET currentIndex == getNoteIndex(note)
        rem          == JsMod12(currentIndex + n)
        newIndex     == IF rem < 0 THEN rem + 12 ELSE rem
    IN  getPreferredSpelling(CHROMATIC_SCALE[newIndex], note)

\* reconstructChord losing the quality of a slash chord
reconstructChord_QualityLost(root, quality, bass) ==
    IF bass # <<>> THEN root \o <<"/">> \o bass ELSE root \o quality

\* reconstructChord; an absent (undefined) or empty bass is the empty sequence
reconstructChord(root, quality, bass) ==
    IF bass # <<>> THEN root \o quality \o <<"/">> \o bass ELSE root \o quality

\* transposeChordBySemitones leaving the bass note where it was
transposeChordBySemitones_BassKept(c, n) ==
    IF c = <<>> \/ Trim(c) = <<>> THEN c
    ELSE LET chordParts == parseChord(c)
         IN  IF ~chordParts.ok THEN c
             ELSE reconstructChord(transposeNote(chordParts.root, n),
                                   chordParts.quality, chordParts.bass)

\* transposeChordBySemitones
transposeChordBySemitones(c, n) ==
    IF c = <<>> \/ Trim(c) = <<>> THEN c
    ELSE LET chordParts == parseChord(c)
         IN  IF ~chordParts.ok THEN c
             ELSE LET newRoot == transposeNote(chordParts.root, n)
                      newBass == IF chordParts.hasBass /\ chordParts.bass # <<>>
                                 THEN transposeNote(chordParts.bass, n)
                                 ELSE <<>>
                  IN  reconstructChord(newRoot, chordParts.quality, newBass)

\* calculateSemitones counting from the target key back to the source key
calculateSemitones_Reversed(from, to) ==
    LET fromIndex == getNoteIndex(parseNote(from))
        toIndex   == getNoteIndex(parseNote(to))
        raw       == fromIndex - toIndex
    IN  IF raw < 0 THEN raw + 12 ELSE raw

\* calculateSemitones; the two loops bring toIndex - fromIndex, which lies in
\* -11..11, into 0..11
calculateSemitones(from, to) ==
    LET fromIndex == getNoteIndex(parseNote(from))
        toIndex   == getNoteIndex(parseNote(to))
        raw       == toIndex - fromIndex
    IN  IF raw < 0 THEN raw + 12 ELSE raw

\* transposeChord
transposeChord(c, from, to, capoPosition) ==
    IF c = <<>> \/ Trim(c) = <<>> THEN c
    ELSE transposeChordBySemitones(c, calculateSemitones(from, to) + capoPosition)

\* getEffectiveKey moving the key down by the capo instead of up
getEffectiveKey_CapoDown(originalKey, capoPosition) ==
    transposeChordBySemitones(originalKey, -capoPosition)

\* getEffectiveKey
getEffectiveKey(originalKey, capoPosition) ==
    transposeChordBySemitones(originalKey, capoPosition)

----------------------------------------------------------------------------
(* More JavaScript primitives, used by the parser *)

UpperCaseLetters ==
    <<"A", "B", "C", "D", "E", "F", "G", "H", "I", "J", "K", "L", "M",
      "N", "O", "P", "Q", "R", "S", "T", "U", "V", "W", "X", "Y", "Z">>

LowerCaseLetters ==
    <<"a", "b", "c", "d", "e", "f", "g", "h", "i", "j", "k", "l", "m",
      "n", "o", "p", "q", "r", "s", "t", "u", "v", "w", "x", "y", "z">>

LowerOf ==
    [c \in {UpperCaseLetters[i] : i \in 1..26} |->
        LowerCaseLetters[CHOOSE i \in 1..26 : UpperCaseLetters[i] = c]]

\* s.toLowerCase()
toLowerCase(s) ==
    [i \in 1..Len(s) |-> IF s[i] \in DOMAIN LowerOf THEN LowerOf[s[i]] ELSE s[i]]

\* s.split(sep) for a one-character separator
RECURSIVE Split(_, _)
Split(s, sep) ==
    LET k == IndexOf(s, sep)
    IN  IF k = 0 THEN <<s>>
        ELSE <<SubSeq(s, 1, k - 1)>> \o Split(From(s, k), sep)

\* s.substring(a, b) with 0-based a, b: clamped to 0..s.length, swapped if a > b
Substring(s, a, b) ==
    LET ca == IF a < 0 THEN 0 ELSE IF a > Len(s) THEN Len(s) ELSE a
        cb == IF b < 0 THEN 0 ELSE IF b > Len(s) THEN Len(s) ELSE b
        lo == IF ca <= cb THEN ca ELSE cb
        hi == IF ca <= cb THEN cb ELSE ca
    IN  SubSeq(s, lo + 1, hi)

\* s.slice(1, -1)
SliceInner(s) == SubSeq(s, 2, Len(s) - 1)

\* s.slice(0, -1)
SliceButLast(s) == SubSeq(s, 1, Len(s) - 1)

\* a JavaScript number: an integer or NaN
Num(n) == [nan |-> FALSE, v |-> n]
NaN == [nan |-> TRUE, v |-> 0]

\* the truthiness of a number: neither 0 nor NaN
NumTruthy(x) == ~x.nan /\ x.v # 0

Digits == <<"0", "1", "2", "3", "4", "5", "6", "7", "8", "9">>

IsDigit(c) == \E d \in 1..10 : Digits[d] = c

DigitValue(c) == (CHOOSE d \in 1..10 : Digits[d] = c) - 1

\* the value of the longest run of digits s starts with, acc being the value so far
RECURSIVE DigitsValue(_, _)
DigitsValue(s, acc) ==
    IF s = <<>> \/ ~IsDigit(Head(s)) THEN acc
    ELSE DigitsValue(Tail(s), 10 * acc + DigitValue(Head(s)))

\* parseInt(s, 10): leading white space, an optional sign, then digits
parseInt(s) ==
    LET t    == TrimLeft(s)
        neg  == t # <<>> /\ Head(t) = "-"
        body == IF t # <<>> /\ Head(t) \in {"-", "+"} THEN Tail(t) ELSE t
    IN  IF body = <<>> \/ ~IsDigit(Head(body)) THEN NaN
        ELSE Num(IF neg THEN -DigitsValue(body, 0) ELSE DigitsValue(body, 0))

\* the decimal digits of a natural number
RECURSIVE NatToString(_)
NatToString(n) ==
    IF n < 10 THEN <<Digits[n + 1]>>
    ELSE NatToString(n \div 10) \o <<Digits[(n % 10) + 1]>>

\* `${x}` for a number x
NumToString(x) ==
    IF x.nan THEN <<"N", "a", "N">>
    ELSE IF x.v < 0 THEN <<"-">> \o NatToString(-x.v)
    ELSE NatToString(x.v)

\* an optional value: <<>> is undefined, <<v>> is the value v
Undefined == <<>>
Some(v) == <<v>>

\* x || d for an optional number x, without the test for NaN and 0
NumberOr_KeepNaN(x, d) == IF x # Undefined THEN x[1] ELSE d

\* x || d for an optional number x
NumberOr(x, d) == IF x # Undefined /\ NumTruthy(x[1]) THEN x[1] ELSE d

\* x || d for an optional string x
StringOr(x, d) == IF x # Undefined /\ x[1] # <<>> THEN x[1] ELSE d

----------------------------------------------------------------------------
(* ChordProParser *)

\* containsChords: the regular expression /\[[^\]]+\]/ matches somewhere
\* (a '[', at least one character other than ']', then a ']')
ChordMatchAt(line, i) ==
    /\ line[i] = "["
    /\ i + 1 <= Len(line)
    /\ line[i + 1] # "]"
    /\ \E j \in (i + 2)..Len(line) : line[j] = "]"

containsChords(line) == \E i \in 1..Len(line) : ChordMatchAt(line, i)

\* line.split(/(\[[^\]]+\])/): the text between the matches and the matches
\* themselves, alternating
RECURSIVE SplitChords(_)
SplitChords(line) ==
    IF ~containsChords(line) THEN <<line>>
    ELSE LET i == CHOOSE k \in 1..Len(line) :
                     ChordMatchAt(line, k) /\ \A m \in 1..(k - 1) : ~ChordMatchAt(line, m)
             j == CHOOSE k \in (i + 2)..Len(line) :
                     line[k] = "]" /\ \A m \in (i + 2)..(k - 1) : line[m] # "]"
         IN  <<SubSeq(line, 1, i - 1), SubSeq(line, i, j)>> \o SplitChords(From(line, j))

\* the loop of parseChordLyricLine with a position that never advances
RECURSIVE ChordLyricParts_NoOffset(_, _, _, _, _)
ChordLyricParts_NoOffset(parts, k, lyrics, position, chords) ==
    IF k > Len(parts) THEN [lyrics |-> lyrics, chords |-> chords]
    ELSE LET part == parts[k]
         IN  IF StartsWith(part, <<"[">>) /\ EndsWith(part, <<"]">>)
             THEN ChordLyricParts_NoOffset(parts, k + 1, lyrics, position,
                     Append(chords, [chord |-> SliceInner(part), position |-> position]))
             ELSE ChordLyricParts_NoOffset(parts, k + 1, lyrics \o part, position, chords)

\* the loop of parseChordLyricLine with a position that counts the bracketed
\* parts as well, an offset into the source line
RECURSIVE ChordLyricParts_OffsetInSource(_, _, _, _, _)
ChordLyricParts_OffsetInSource(parts, k, lyrics, position, chords) ==
    IF k > Len(parts) THEN [lyrics |-> lyrics, chords |-> chords]
    ELSE LET part == parts[k]
         IN  IF StartsWith(part, <<"[">>) /\ EndsWith(part, <<"]">>)
             THEN ChordLyricParts_OffsetInSource(parts, k + 1, lyrics, position + Len(part),
                     Append(chords, [chord |-> SliceInner(part), position |-> position]))
             ELSE ChordLyricParts_OffsetInSource(parts, k + 1, lyrics \o part,
                     position + Len(part), chords)

\* the loop of parseChordLyricLine over the parts, from part k on
RECURSIVE ChordLyricParts(_, _, _, _, _)
ChordLyricParts(parts, k, lyrics, position, chords) ==
    IF k > Len(parts) THEN [lyrics |-> lyrics, chords |-> chords]
    ELSE LET part == parts[k]
         IN  IF StartsWith(part, <<"[">>) /\ EndsWith(part, <<"]">>)
             THEN ChordLyricParts(parts, k + 1, lyrics, position,
                     Append(chords, [chord |-> SliceInner(part), position |-> position]))
             ELSE ChordLyricParts(parts, k + 1, lyrics \o part,
                     position + Len(part), chords)

\* parseChordLyricLine: <<>> for the null return, else <<the line>>
parseChordLyricLine(line) ==
    IF Trim(line) = <<>> THEN Undefined
    ELSE IF containsChords(line)
         THEN Some(ChordLyricParts(SplitChords(line), 1, <<>>, 0, <<>>))
         ELSE Some([lyrics |-> line, chords |-> <<>>])

\* createSection without the bridge branch
createSection_BridgeIsVerse(line) ==
    LET name      == Trim(SliceButLast(line))
        lowerName == toLowerCase(name)
        type == IF Includes(lowerName, <<"c", "h", "o", "r", "u", "s">>) THEN "chorus"
                ELSE IF Includes(lowerName, <<"i", "n", "t", "r", "o">>) THEN "intro"
                ELSE IF \/ Includes(lowerName, <<"o", "u", "t", "r", "o">>)
                        \/ Includes(lowerName, <<"t", "a", "g">>) THEN "outro"
                ELSE "verse"
    IN  [type |-> type, name |-> name, content |-> <<>>]

\* createSection
createSection(line) ==
    LET name      == Trim(SliceButLast(line))
        lowerName == toLowerCase(name)
        type == IF Includes(lowerName, <<"c", "h", "o", "r", "u", "s">>) THEN "chorus"
                ELSE IF Includes(lowerName, <<"b", "r", "i", "d", "g", "e">>) THEN "bridge"
                ELSE IF Includes(lowerName, <<"i", "n", "t", "r", "o">>) THEN "intro"
                ELSE IF \/ Includes(lowerName, <<"o", "u", "t", "r", "o">>)
                        \/ Includes(lowerName, <<"t", "a", "g">>) THEN "outro"
                ELSE "verse"
    IN  [type |-> type, name |-> name, content |-> <<>>]

\* value.replace(/^\[|\]$/g, ''): one leading '[' and one trailing ']' removed
StripBrackets(value) ==
    LET a == IF value # <<>> /\ Head(value) = "[" THEN Tail(value) ELSE value
    IN  IF a # <<>> /\ a[Len(a)] = "]" THEN SliceButLast(a) ELSE a

\* const metadata: ChordProMetadata = {}
EmptyMetadata ==
    [title |-> Undefined, artist |-> Undefined, key |-> Undefined,
     originalKey |-> Undefined, capo |-> Undefined, tempo |-> Undefined,
     notes |-> Undefined, scriptureReference |-> Undefined, book |-> Undefined]

\* parseDirective: the metadata after the directive line
parseDirective(line, metadata) ==
    LET directive == SliceInner(line)
        k         == IndexOf(directive, ":")
        key       == IF k = 0 THEN directive ELSE SubSeq(directive, 1, k - 1)
        value     == IF k = 0 THEN <<>> ELSE Trim(From(directive, k))
        lowerKey  == toLowerCase(key)
    IN  IF lowerKey \in {<<"t">>, <<"t", "i", "t", "l", "e">>}
        THEN [metadata EXCEPT !.title = Some(value)]
        ELSE IF lowerKey \in {<<"a", "r", "t", "i", "s", "t">>, <<"a">>}
        THEN [metadata EXCEPT !.artist = Some(value)]
        ELSE IF lowerKey = <<"k", "e", "y">>
        THEN [metadata EXCEPT !.key = Some(StripBrackets(value))]
        ELSE IF lowerKey = <<"c", "a", "p", "o">>
        THEN [metadata EXCEPT !.capo = Some(parseInt(value))]
        ELSE IF lowerKey = <<"t", "e", "m", "p", "o">>
        THEN [metadata EXCEPT !.tempo = Some(parseInt(value))]
        ELSE metadata

\* parseHeaderMetadata: the metadata after the header line
parseHeaderMetadata(line, metadata) ==
    LET colonIndex == IndexOf(line, ":")
        key        == toLowerCase(Trim(SubSeq(line, 1, colonIndex - 1)))
        value      == Trim(From(line, colonIndex))
    IN  IF colonIndex = 0 THEN metadata
        ELSE IF key = <<"t", "i", "t", "l", "e">>
        THEN [metadata EXCEPT !.title = Some(value)]
        ELSE IF key = <<"a", "r", "t", "i", "s", "t">>
        THEN [metadata EXCEPT !.artist = Some(value)]
        ELSE IF key = <<"k", "e", "y">>
        THEN [metadata EXCEPT !.key = Some(StripBrackets(value))]
        ELSE IF key = <<"o", "r", "i", "g", "i", "n", "a", "l", " ", "k", "e", "y">>
        THEN [metadata EXCEPT !.originalKey = Some(value)]
        ELSE IF key = <<"c", "a", "p", "o">>
        THEN [metadata EXCEPT !.capo = Some(parseInt(value))]
        ELSE IF key = <<"t", "e", "m", "p", "o">>
        THEN [metadata EXCEPT !.tempo = Some(parseInt(value))]
        ELSE IF key = <<"n", "o", "t", "e", "s">>
        THEN [metadata EXCEPT !.notes = Some(value)]
        ELSE IF key = <<"s", "c", "r", "i", "p", "t", "u", "r", "e", " ", "r", "e", "f", "e", "r", "e", "n", "c", "e", "(", "s", ")">>
        THEN [metadata EXCEPT !.scriptureReference = Some(value)]
        ELSE IF key = <<"b", "o", "o", "k">>
        THEN [metadata EXCEPT !.book = Some(value)]
        ELSE metadata

\* the test of lines 38-43: the lower-cased line names a section
isSectionHeader(lowerLine) ==
    \/ Includes(lowerLine, <<"v", "e", "r", "s", "e">>)
    \/ Includes(lowerLine, <<"c", "h", "o", "r", "u", "s">>)
    \/ Includes(lowerLine, <<"b", "r", "i", "d", "g", "e">>)
    \/ Includes(lowerLine, <<"i", "n", "t", "r", "o">>)
    \/ Includes(lowerLine, <<"o", "u", "t", "r", "o">>)
    \/ Includes(lowerLine, <<"t", "a", "g">>)

\* the parser's locals before the loop; raised records an exception thrown by
\* a dereference of a null currentSection
ParserStart ==
    [metadata |-> EmptyMetadata, sections |-> <<>>, currentSection |-> Undefined,
     raised |-> FALSE]

\* currentSection.content.unshift(chordLyricLine): the line goes to the front
pushContent_Unshift(st, chordLyricLine) ==
    IF st.currentSection = Undefined THEN [st EXCEPT !.raised = TRUE]
    ELSE [st EXCEPT !.currentSection =
            Some([st.currentSection[1] EXCEPT !.content = <<chordLyricLine>> \o @])]

\* currentSection.content.push(chordLyricLine): a TypeError when currentSection is null
pushContent(st, chordLyricLine) ==
    IF st.currentSection = Undefined THEN [st EXCEPT !.raised = TRUE]
    ELSE [st EXCEPT !.currentSection =
            Some([st.currentSection[1] EXCEPT !.content = Append(@, chordLyricLine)])]

\* lines 64-70 without the test that a section is open
parseContentLine_NoSectionGuard(st, line) ==
    IF containsChords(line) \/ Len(line) > 0
    THEN LET chordLyricLine == parseChordLyricLine(line)
         IN  IF chordLyricLine # Undefined THEN pushContent(st, chordLyricLine[1]) ELSE st
    ELSE st

\* lines 64-70: a chord/lyric line goes to the open section, if there is one
parseContentLine(st, line) ==
    IF st.currentSection # Undefined /\ (containsChords(line) \/ Len(line) > 0)
    THEN LET chordLyricLine == parseChordLyricLine(line)
         IN  IF chordLyricLine # Undefined THEN pushContent(st, chordLyricLine[1]) ELSE st
    ELSE st

\* the loop's body with a heading test that does not look for chords
parseLine_HeadingWithChords(st, rawLine) ==
    LET line == Trim(rawLine)
    IN  IF st.raised \/ line = <<>> THEN st
        ELSE IF StartsWith(line, <<"{">>) /\ EndsWith(line, <<"}">>)
        THEN [st EXCEPT !.metadata = parseDirective(line, st.metadata)]
        ELSE IF EndsWith(line, <<":">>)
        THEN IF isSectionHeader(toLowerCase(line))
             THEN [st EXCEPT
                     !.sections = IF st.currentSection # Undefined
                                  THEN Append(@, st.currentSection[1]) ELSE @,
                     !.currentSection = Some(createSection(line))]
             ELSE [st EXCEPT !.metadata = parseHeaderMetadata(line, st.metadata)]
        ELSE IF Includes(line, <<":">>) /\ ~containsChords(line) /\ ~EndsWith(line, <<":">>)
        THEN [st EXCEPT !.metadata = parseHeaderMetadata(line, st.metadata)]
        ELSE parseContentLine(st, line)

\* one iteration of the loop of parseChordPro (lines 22-71) on lines[i]
parseLine(st, rawLine) ==
    LET line == Trim(rawLine)
    IN  IF st.raised \/ line = <<>> THEN st
        ELSE IF StartsWith(line, <<"{">>) /\ EndsWith(line, <<"}">>)
        THEN [st EXCEPT !.metadata = parseDirective(line, st.metadata)]
        ELSE IF EndsWith(line, <<":">>) /\ ~containsChords(line)
        THEN IF isSectionHeader(toLowerCase(line))
             THEN [st EXCEPT
                     !.sections = IF st.currentSection # Undefined
                                  THEN Append(@, st.currentSection[1]) ELSE @,
                     !.currentSection = Some(createSection(line))]
             ELSE [st EXCEPT !.metadata = parseHeaderMetadata(line, st.metadata)]
        ELSE IF Includes(line, <<":">>) /\ ~containsChords(line) /\ ~EndsWith(line, <<":">>)
        THEN [st EXCEPT !.metadata = parseHeaderMetadata(line, st.metadata)]
        ELSE parseContentLine(st, line)

\* the loop of parseChordPro over lines[i..]
RECURSIVE parseLines(_, _, _)
parseLines(st, lines, i) ==
    IF i > Len(lines) THEN st
    ELSE parseLines(parseLine(st, lines[i]), lines, i + 1)

\* the parser's locals after the loop
parseLoop(text) == parseLines(ParserStart, Split(text, "\n"), 1)

\* parseChordPro, the id left out (it is copied to the Song untouched); the
\* Song's metadata dates and tags are left out as well. raised is TRUE when
\* the call threw instead of returning.
parseChordPro(text) ==
    LET st       == parseLoop(text)
        metadata == st.metadata
        sections == IF st.currentSection # Undefined
                    THEN Append(st.sections, st.currentSection[1])
                    ELSE st.sections
    IN  [raised       |-> st.raised,
         title        |-> StringOr(metadata.title, <<"U", "n", "k", "n", "o", "w", "n", " ", "T", "i", "t", "l", "e">>),
         artist       |-> StringOr(metadata.artist, <<"U", "n", "k", "n", "o", "w", "n", " ", "A", "r", "t", "i", "s", "t">>),
         originalKey  |-> StringOr(metadata.originalKey, StringOr(metadata.key, <<"C">>)),
         capoPosition |-> NumberOr(metadata.capo, Num(0)),
         tempo        |-> metadata.tempo,
         sections     |-> IF st.raised THEN <<>> ELSE sections]

\* [...line.chords].sort((a, b) => a.position - b.position): a stable sort
RECURSIVE InsertByPosition(_, _)
InsertByPosition(sorted, c) ==
    IF sorted = <<>> THEN <<c>>
    ELSE IF sorted[Len(sorted)].position <= c.position THEN Append(sorted, c)
    ELSE Append(InsertByPosition(SliceButLast(sorted), c), sorted[Len(sorted)])

\* the annotations taken in the order they are stored
SortChords_AsStored(chords) == chords

RECURSIVE SortChords(_)
SortChords(chords) ==
    IF chords = <<>> THEN <<>>
    ELSE InsertByPosition(SortChords(SliceButLast(chords)), chords[Len(chords)])

\* lines 246-252: lyrics and chords interleaved, from sorted chord k on
RECURSIVE ChordLineFrom(_, _, _, _, _)
ChordLineFrom(lyrics, sortedChords, k, currentPos, chordLine) ==
    IF k > Len(sortedChords) THEN chordLine \o From(lyrics, currentPos)
    ELSE LET chordPos == sortedChords[k]
         IN  ChordLineFrom(lyrics, sortedChords, k + 1, chordPos.position,
                 chordLine \o Substring(lyrics, currentPos, chordPos.position)
                           \o <<"[">> \o chordPos.chord \o <<"]">>)

\* lines 236-258: the text of one line of a section
lineToChordPro(line) ==
    IF Len(line.chords) = 0 THEN line.lyrics \o <<"\n">>
    ELSE ChordLineFrom(line.lyrics, SortChords(line.chords), 1, 0, <<>>) \o <<"\n">>

RECURSIVE linesToChordPro(_, _)
linesToChordPro(lines, k) ==
    IF k > Len(lines) THEN <<>>
    ELSE lineToChordPro(lines[k]) \o linesToChordPro(lines, k + 1)

\* the name of a section type as a string
TypeName(type) ==
    CASE type = "verse"  -> <<"v", "e", "r", "s", "e">>
      [] type = "chorus" -> <<"c", "h", "o", "r", "u", "s">>
      [] type = "bridge" -> <<"b", "r", "i", "d", "g", "e">>
      [] type = "intro"  -> <<"i", "n", "t", "r", "o">>
      [] type = "outro"  -> <<"o", "u", "t", "r", "o">>

\* lines 233-261: the text of the sections from section k on
RECURSIVE sectionsToChordPro(_, _)
sectionsToChordPro(sections, k) ==
    IF k > Len(sections) THEN <<>>
    ELSE LET section == sections[k]
         IN  (IF section.name # <<>> THEN section.name ELSE TypeName(section.type))
               \o <<":", "\n">>
               \o linesToChordPro(section.content, 1)
               \o <<"\n">>
               \o sectionsToChordPro(sections, k + 1)

\* songToChordPro
songToChordPro(s) ==
    <<"T", "i", "t", "l", "e", ":", " ">> \o s.title \o <<"\n">>
      \o <<"A", "r", "t", "i", "s", "t", ":", " ">> \o s.artist \o <<"\n">>
      \o <<"K", "e", "y", ":", " ", "[">> \o s.originalKey \o <<"]", "\n">>
      \o <<"O", "r", "i", "g", "i", "n", "a", "l", " ", "K", "e", "y", ":", " ">> \o s.originalKey \o <<"\n">>
      \o (IF NumTruthy(s.capoPosition)
          THEN <<"C", "a", "p", "o", ":", " ">> \o NumToString(s.capoPosition) \o <<"\n">> ELSE <<>>)
      \o (IF s.tempo # Undefined /\ NumTruthy(s.tempo[1])
          THEN <<"T", "e", "m", "p", "o", ":", " ">> \o NumToString(s.tempo[1]) \o <<"\n">> ELSE <<>>)
      \o <<"\n">>
      \o sectionsToChordPro(s.sections, 1)

----------------------------------------------------------------------------
(* ChordTransposer: the key list and the capo suggestions *)

\* getAllKeys without the keys on B
getAllKeys_WithoutB ==
    <<
       <<"C">>, <<"C", "#">>, <<"D", "b">>, <<"D">>, <<"D", "#">>,
       <<"E", "b">>, <<"E">>, <<"F">>, <<"F", "#">>, <<"G", "b">>,
       <<"G">>, <<"G", "#">>, <<"A", "b">>, <<"A">>, <<"A", "#">>,
       <<"B", "b">>, <<"C", "m">>, <<"C", "#", "m">>, <<"D", "m">>, <<"D", "#", "m">>,
       <<"E", "b", "m">>, <<"E", "m">>, <<"F", "m">>, <<"F", "#", "m">>, <<"G", "m">>,
       <<"G", "#", "m">>, <<"A", "m">>, <<"A", "#", "m">>, <<"B", "b", "m">>
    >>

\* getAllKeys
getAllKeys ==
    <<
       <<"C">>, <<"C", "#">>, <<"D", "b">>, <<"D">>, <<"D", "#">>,
       <<"E", "b">>, <<"E">>, <<"F">>, <<"F", "#">>, <<"G", "b">>,
       <<"G">>, <<"G", "#">>, <<"A", "b">>, <<"A">>, <<"A", "#">>,
       <<"B", "b">>, <<"B">>, <<"C", "m">>, <<"C", "#", "m">>, <<"D", "m">>,
       <<"D", "#", "m">>, <<"E", "b", "m">>, <<"E", "m">>, <<"F", "m">>, <<"F", "#", "m">>,
       <<"G", "m">>, <<"G", "#", "m">>, <<"A", "m">>, <<"A", "#", "m">>, <<"B", "b", "m">>,
       <<"B", "m">>
    >>

\* easyKeys of getSuggestedCapoPositions; the code only asks easyKeys.includes
easyKeys ==
    {<<"C">>, <<"G">>, <<"D">>, <<"A">>, <<"E">>, <<"A", "m">>, <<"E", "m">>, <<"B", "m">>, <<"F", "#", "m">>, <<"C", "#", "m">>}

\* lines 191-199: the loop of getSuggestedCapoPositions, from capo on
RECURSIVE SuggestionLoop(_, _, _, _)
SuggestionLoop(from, semis, capo, list) ==
    IF capo > 12 THEN list
    ELSE LET effectiveKey == transposeChordBySemitones(from, -capo)
             targetCapo   == JsMod12(semis + capo)
         IN  SuggestionLoop(from, semis, capo + 1,
                 IF effectiveKey \in easyKeys /\ targetCapo >= 0 /\ targetCapo <= 7
                 THEN Append(list, targetCapo) ELSE list)

\* [...new Set(list)]: the first occurrence of every value, in insertion order
RECURSIVE Unique(_)
Unique(list) ==
    IF list = <<>> THEN <<>>
    ELSE LET rest == Unique(SliceButLast(list))
             last == list[Len(list)]
         IN  IF \E i \in 1..Len(rest) : rest[i] = last THEN rest ELSE Append(rest, last)

\* .sort((a, b) => a - b): ascending numeric order
RECURSIVE InsertNumber(_, _)
InsertNumber(sorted, n) ==
    IF sorted = <<>> THEN <<n>>
    ELSE IF sorted[Len(sorted)] <= n THEN Append(sorted, n)
    ELSE Append(InsertNumber(SliceButLast(sorted), n), sorted[Len(sorted)])

RECURSIVE SortNumbers(_)
SortNumbers(list) ==
    IF list = <<>> THEN <<>>
    ELSE InsertNumber(SortNumbers(SliceButLast(list)), list[Len(list)])

\* getSuggestedCapoPositions returning the list as the loop built it
getSuggestedCapoPositions_AsCollected(from, to) ==
    SuggestionLoop(from, calculateSemitones(from, to), 0, <<>>)

\* getSuggestedCapoPositions
getSuggestedCapoPositions(from, to) ==
    SortNumbers(Unique(SuggestionLoop(from, calculateSemitones(from, to), 0, <<>>)))

----------------------------------------------------------------------------
(* The setlist storage and the transpose controls while they are not used *)

\* the setlist storage is not running
StorageIdle ==
    /\ SETLISTS = Undefined
    /\ METADATA = Undefined
    /\ VERSION = Undefined
    /\ songLibrary = {}
    /\ outcome = <<>>
    /\ migrations = <<>>
    /\ migrated = <<>>
    /\ started = 0

\* no song is open in a view
ControlsIdle ==
    /\ view = "off"
    /\ selectedSong = <<>>
    /\ setlistSong = <<>>
    /\ currentKey = <<>>
    /\ currentCapo = 0
    /\ overrides = Undefined
    /\ trail = <<>>

----------------------------------------------------------------------------
(* DataLoader: getSongById and the cache of parsed songs. A Song object is *)
(* [id, n]: the n-th Song that parseChordPro built, so that two parses of  *)
(* one file give two objects.                                              *)

SongIds == {"amazing-grace", "how-great-thou-art"}

Callers == 1..MaxCallers

\* the null that getSongById returns after a failed load
Null == [id |-> "", n |-> 0]

\* private individualSongsCache: Map<string, Song> = new Map()
EmptyCache == [id \in SongIds |-> Undefined]

\* a caller that is not inside getSongById
NoCall == [pc |-> "idle", id |-> "", ret |-> Undefined]

\* the calls that are waiting for fetch() or for response.text()
InFlight == {p \in Callers : calls[p].pc \in {"fetch", "text"}}

\* the data loader is not running
LoaderIdle ==
    /\ individualSongsCache = EmptyCache
    /\ calls = <<>>
    /\ parsed = [id \in SongIds |-> 0]
    /\ returned = [id \in SongIds |-> {}]
    /\ made = 0

----------------------------------------------------------------------------
(* Inputs of the transposition engine *)

NoteLetters == {"A", "B", "C", "D", "E", "F", "G"}

\* every token of the form [A-G][#b]?  (21 tokens)
NoteTokens ==
    {<<l>> : l \in NoteLetters} \cup {<<l, a>> : l \in NoteLetters, a \in {"#", "b"}}

\* quality suffixes: none, minor, minor seventh, suspended fourth, sharp ninth
Qualities == {<<>>, <<"m">>, <<"m", "7">>, <<"s", "u", "s", "4">>, <<"#", "9">>}

\* quality suffixes of the slash chords
SlashQualities == {<<>>, <<"m", "7">>}

\* root + quality
PlainChords == {r \o q : r \in NoteTokens, q \in Qualities}

\* root + quality + "/" + bass, the bass a note token
SlashChords ==
    {r \o q \o <<"/">> \o b : r \in NoteTokens, q \in SlashQualities, b \in NoteTokens}

\* strings that are no chord, or whose bass part is no note token
OddStrings ==
    { <<>>,                                   \* ""
      <<" ">>,                                \* " "
      <<"?", "?", "?">>,                      \* "???"
      <<"a", "m">>,                           \* "am"
      <<"c", "#">>,                           \* "c#"
      <<"H", "7">>,                           \* "H7"
      <<"N", ".", "C", ".">>,                 \* "N.C."
      <<" ", "C">>,                           \* " C"
      <<"/", "E">>,                           \* "/E"
      <<"m", "7", "/", "G">>,                 \* "m7/G"
      <<"C", "6", "/", "9">>,                 \* "C6/9"
      <<"C", "/", "e">>,                      \* "C/e"
      <<"G", "/">>,                           \* "G/"
      <<"C", "/", "E", "m">> }                \* "C/Em"

ChordPool == PlainChords \cup SlashChords \cup OddStrings

\* key strings handed to transposeChord
KeyPool ==
    { <<"C">>, <<"D">>, <<"A", "m">>, <<"B", "b">>, <<"F", "#", "m">> }

\* capo arguments handed to transposeChord
CapoArgs == {0, 2}

----------------------------------------------------------------------------
(* The transposition engine's calls *)

TInit ==
    /\ chord \in ChordPool
    /\ semitones = 0
    /\ fromKey = <<>>
    /\ toKey = <<>>
    /\ result = <<>>
    /\ back = <<>>
    /\ op = "idle"
    /\ suggestions = <<>>
    /\ keys = <<>>

\* the value of song and song2 before the parser has run
NoSong ==
    [raised |-> FALSE, title |-> <<>>, artist |-> <<>>, originalKey |-> <<>>,
     capoPosition |-> Num(0), tempo |-> Undefined, sections |-> <<>>]

\* the parser is not running
ParserIdle ==
    /\ content = <<>>
    /\ song = NoSong
    /\ output = <<>>
    /\ song2 = NoSong
    /\ pc = "off"

\* ChordTransposer.transposeChordBySemitones(chord, n)
TransposeBySemitones ==
    /\ op = "idle"
    /\ \E n \in (-MaxSemitones)..MaxSemitones :
          /\ semitones' = n
          /\ result' = transposeChordBySemitones(chord, n)
    /\ op' = "bySemitones"
    /\ UNCHANGED <<chord, fromKey, toKey, back, suggestions, keys>>
    /\ UNCHANGED <<pvars, lvars, svars, cvars>>

\* the inverse call on the result: transposeChordBySemitones(result, -n)
TransposeBack ==
    /\ op = "bySemitones"
    /\ back' = transposeChordBySemitones(result, -semitones)
    /\ op' = "roundTrip"
    /\ UNCHANGED <<chord, semitones, fromKey, toKey, result, suggestions, keys>>
    /\ UNCHANGED <<pvars, lvars, svars, cvars>>

\* ChordTransposer.transposeChord(chord, from, to, capo)
TransposeChord ==
    /\ op = "idle"
    /\ \E from \in KeyPool, to \in KeyPool, capo \in CapoArgs :
          /\ fromKey' = from
          /\ toKey' = to
          /\ semitones' = capo
          /\ result' = transposeChord(chord, from, to, capo)
    /\ op' = "transposeChord"
    /\ UNCHANGED <<chord, back, suggestions, keys>>
    /\ UNCHANGED <<pvars, lvars, svars, cvars>>

\* ChordTransposer.getEffectiveKey(chord, capo), the chord string read as a key
GetEffectiveKey ==
    /\ op = "idle"
    /\ \E capo \in 0..MaxCapo :
          /\ semitones' = capo
          /\ result' = getEffectiveKey(chord, capo)
    /\ op' = "effectiveKey"
    /\ UNCHANGED <<chord, fromKey, toKey, back, suggestions, keys>>
    /\ UNCHANGED <<pvars, lvars, svars, cvars>>

\* ChordTransposer.getSuggestedCapoPositions(from, to)
GetSuggestedCapoPositions ==
    /\ op = "idle"
    /\ \E from \in KeyPool, to \in KeyPool :
          /\ fromKey' = from
          /\ toKey' = to
          /\ suggestions' = getSuggestedCapoPositions(from, to)
    /\ op' = "suggestedCapo"
    /\ UNCHANGED <<chord, semitones, result, back, keys>>
    /\ UNCHANGED <<pvars, lvars, svars, cvars>>

\* ChordTransposer.getAllKeys(), a first call or a later one
GetAllKeys ==
    /\ op \in {"idle", "allKeys"}
    /\ keys' = getAllKeys
    /\ op' = "allKeys"
    /\ UNCHANGED <<chord, semitones, fromKey, toKey, result, back, suggestions>>
    /\ UNCHANGED <<pvars, lvars, svars, cvars>>

TNext ==
    \/ TransposeBySemitones
    \/ TransposeBack
    \/ TransposeChord
    \/ GetEffectiveKey
    \/ GetSuggestedCapoPositions
    \/ GetAllKeys

InitTransposer == TInit /\ ParserIdle /\ LoaderIdle /\ StorageIdle /\ ControlsIdle

SpecTransposer == InitTransposer /\ [][TNext]_vars

----------------------------------------------------------------------------
(* Vocabulary of the transposition claims, stated from music theory rather *)
(* than from the engine's tables                                           *)

NaturalPitch(l) ==
    CASE l = "C" -> 0 [] l = "D" -> 2 [] l = "E" -> 4 [] l = "F" -> 5
      [] l = "G" -> 7 [] l = "A" -> 9 [] l = "B" -> 11

\* the pitch class 0..11 of a note token: '#' raises, 'b' lowers by a semitone
PitchClassOf(tok) ==
    (NaturalPitch(tok[1])
       + (IF Len(tok) = 2 THEN (IF tok[2] = "#" THEN 1 ELSE 11) ELSE 0)) % 12

NaturalNotes == {<<l>> : l \in NoteLetters}

\* the name of pitch class k: the natural if there is one, else the one spelled
\* with the accidental acc ("#" or "b")
SpelledName(k, acc) ==
    IF \E t \in NaturalNotes : PitchClassOf(t) = k
    THEN CHOOSE t \in NaturalNotes : PitchClassOf(t) = k
    ELSE CHOOSE t \in NoteTokens : Len(t) = 2 /\ t[2] = acc /\ PitchClassOf(t) = k

\* the 17 names a transposed note may take
CanonicalNames == {SpelledName(k, acc) : k \in 0..11, acc \in {"#", "b"}}

\* the accidental a note token asks for: flats when it is spelled with 'b'
PreferenceOf(tok) == IF \E i \in 1..Len(tok) : tok[i] = "b" THEN "b" ELSE "#"

HasSlash(c) == \E i \in 1..Len(c) : c[i] = "/"

\* the text before the first '/', or all of it
MainOf(c) == IF HasSlash(c) THEN SubSeq(c, 1, IndexOf(c, "/") - 1) ELSE c

\* the text after the first '/', or nothing
BassOf(c) == IF HasSlash(c) THEN SubSeq(c, IndexOf(c, "/") + 1, Len(c)) ELSE <<>>

\* the longest note token the string starts with, <<>> when there is none
RootTokenOf(c) ==
    IF Len(c) >= 2 /\ SubSeq(c, 1, 2) \in NoteTokens THEN SubSeq(c, 1, 2)
    ELSE IF Len(c) >= 1 /\ SubSeq(c, 1, 1) \in NoteTokens THEN SubSeq(c, 1, 1)
    ELSE <<>>

\* the text between the root token and the first '/'
QualityOf(c) == From(MainOf(c), Len(RootTokenOf(c)))

\* chords whose root and bass are note tokens
ValidChords == PlainChords \cup SlashChords

\* a string the engine takes for a chord: it begins with a capital A-G
Parseable(c) == c # <<>> /\ c[1] \in NoteLetters

\* the note token tok moved by n semitones, spelled after tok's own preference
Shifted(tok, n) == SpelledName((PitchClassOf(tok) + n) % 12, PreferenceOf(tok))

\* x respelled to the sharp/flat preference of the tokens of orig
Respelled(x, orig) ==
    IF RootTokenOf(x) = <<>> THEN x
    ELSE SpelledName(PitchClassOf(RootTokenOf(x)), PreferenceOf(RootTokenOf(orig)))
           \o QualityOf(x)
           \o (IF ~HasSlash(x) THEN <<>>
               ELSE IF BassOf(x) \in NoteTokens
                    THEN <<"/">> \o SpelledName(PitchClassOf(BassOf(x)),
                                                PreferenceOf(BassOf(orig)))
                    ELSE <<"/">> \o BassOf(x))

----------------------------------------------------------------------------
(* Claims about the transposition engine *)

\* C2 (as stated): transposing a valid chord by n and then by -n gives the
\* chord back, up to respelling its notes to the original's sharp/flat
\* preference.
RoundTripTransposition ==
    (op = "roundTrip" /\ chord \in ValidChords)
        => Respelled(back, chord) = Respelled(chord, chord)

\* C3 (as stated): transposing by 0 or by 12 semitones returns every chord
\* string unchanged.
ZeroAndOctaveIdentity ==
    (op = "bySemitones" /\ semitones \in {0, 12}) => result = chord

\* C4: a string that does not begin with a capital A-G is returned verbatim
\* by transposeChordBySemitones, transposeChord and getEffectiveKey, whatever
\* the semitone, key and capo arguments.
UnparseablePassthrough ==
    (op \in {"bySemitones", "roundTrip", "transposeChord", "effectiveKey"} /\ ~Parseable(chord))
        => /\ result = chord
           /\ op = "roundTrip" => back = chord

UnparseableWitness ==
    /\ op = "bySemitones"
    /\ chord = <<"?", "?", "?">>
    /\ semitones = 5
    /\ result = <<"?", "?", "?">>

\* C5: for a parseable chord the result is a note name, then the quality suffix
\* of the input character for character, then nothing or '/' and a note name;
\* "Am7" always gives <root>m7.
QualityPreservation ==
    (op = "bySemitones" /\ Parseable(chord))
        => /\ \E n \in 1..2 :
                /\ n <= Len(result)
                /\ LET q    == QualityOf(chord)
                       r    == SubSeq(result, 1, n)
                       tail == From(result, n + Len(q))
                   IN  /\ r \in CanonicalNames
                       /\ result = r \o q \o tail
                       /\ BassOf(chord) = <<>> => tail = <<>>
                       /\ BassOf(chord) # <<>>
                            => /\ tail # <<>>
                               /\ Head(tail) = "/"
                               /\ Tail(tail) \in CanonicalNames
           /\ chord = <<"A", "m", "7">>
                => \E k \in 0..11 : result = SpelledName(k, "#") \o <<"m", "7">>

QualityWitness ==
    /\ op = "bySemitones"
    /\ chord = <<"A", "m", "7">>
    /\ semitones = 3
    /\ result = <<"C", "m", "7">>

\* C6: a slash chord with a note-token bass keeps the form root+quality/bass,
\* root and bass both move by n semitones, so the interval between them is
\* unchanged; "C/E" up 2 is "D/F#".
SlashChordTransposition ==
    (op = "bySemitones" /\ chord \in SlashChords)
        => LET q  == QualityOf(chord)
               r0 == RootTokenOf(chord)
               b0 == BassOf(chord)
               r  == RootTokenOf(result)
               b  == BassOf(result)
           IN  /\ r \in CanonicalNames
               /\ b \in CanonicalNames
               /\ result = r \o q \o <<"/">> \o b
               /\ PitchClassOf(r) = (PitchClassOf(r0) + semitones) % 12
               /\ PitchClassOf(b) = (PitchClassOf(b0) + semitones) % 12
               /\ (PitchClassOf(b) - PitchClassOf(r)) % 12
                    = (PitchClassOf(b0) - PitchClassOf(r0)) % 12
               /\ (chord = <<"C", "/", "E">> /\ semitones = 2)
                    => result = <<"D", "/", "F", "#">>

SlashChordWitness ==
    /\ op = "bySemitones"
    /\ chord = <<"C", "/", "E">>
    /\ semitones = 2
    /\ result = <<"D", "/", "F", "#">>

\* C7: each transposed note is spelled after its own input token: flat names
\* when that token contains 'b', sharp names otherwise, root and bass decided
\* independently; "Db" up 2 is "Eb" and "D" up 1 is "D#".
EnharmonicSpelling ==
    (op = "bySemitones" /\ chord \in ValidChords)
        => /\ result = Shifted(RootTokenOf(chord), semitones)
                         \o QualityOf(chord)
                         \o (IF HasSlash(chord)
                             THEN <<"/">> \o Shifted(BassOf(chord), semitones)
                             ELSE <<>>)
           /\ (chord = <<"D", "b">> /\ semitones = 2) => result = <<"E", "b">>
           /\ (chord = <<"D">> /\ semitones = 1) => result = <<"D", "#">>

\* a flat root over a natural bass: the root stays flat, the bass turns sharp
EnharmonicWitness ==
    /\ op = "bySemitones"
    /\ chord = <<"D", "b", "/", "F">>
    /\ semitones = 1
    /\ result = <<"D", "/", "F", "#">>

\* C8: getEffectiveKey(key, capo) is transposeChordBySemitones(key, capo): the
\* key's note moves up by capo semitones and its suffix is kept;
\* getEffectiveKey("D", 2) is "E".
EffectiveKeyUnderCapo ==
    op = "effectiveKey"
        => /\ result = transposeChordBySemitones(chord, semitones)
           /\ chord \in PlainChords
                => result = Shifted(RootTokenOf(chord), semitones) \o QualityOf(chord)
           /\ (chord = <<"D">> /\ semitones = 2) => result = <<"E">>

EffectiveKeyWitness ==
    /\ op = "effectiveKey"
    /\ chord = <<"A", "m">>
    /\ semitones = 3
    /\ result = <<"C", "m">>

\* C15: transposeChord(chord, fromKey, toKey, capo) is
\* transposeChordBySemitones(chord, d + capo), where d is the pitch class of
\* toKey's root token minus that of fromKey's root token, brought into 0..11
\* (the quality of a key such as "Am" plays no part) and capo is added as it
\* is; with fromKey = toKey and capo 0 it is transposeChordBySemitones(chord, 0).
TransposeChordFormula ==
    op = "transposeChord"
        => LET d == (PitchClassOf(RootTokenOf(toKey))
                       - PitchClassOf(RootTokenOf(fromKey))) % 12
           IN  /\ d \in 0..11
               /\ calculateSemitones(fromKey, toKey) = d
               /\ result = transposeChordBySemitones(chord, d + semitones)
               /\ (fromKey = toKey /\ semitones = 0)
                    => result = transposeChordBySemitones(chord, 0)

\* "Bbm7/F" from key "F#m" to key "D" with capo 2: d = 8, ten semitones up,
\* the root spelled with a flat and the bass with a sharp
TransposeChordWitness ==
    /\ op = "transposeChord"
    /\ chord = <<"B", "b", "m", "7", "/", "F">>
    /\ fromKey = <<"F", "#", "m">>
    /\ toKey = <<"D">>
    /\ semitones = 2
    /\ result = <<"A", "b", "m", "7", "/", "D", "#">>

\* C16: getSuggestedCapoPositions returns a strictly ascending list of values
\* in 0..7, and v is in it exactly when v <= 7 and
\* v = (semitones(fromKey, toKey) + capo) mod 12 for a capo in 0..12 whose
\* shape transposeChordBySemitones(fromKey, -capo) is C, G, D, A, E, Am, Em,
\* Bm, F#m or C#m.
SuggestedCapoPositions ==
    op = "suggestedCapo"
        => LET shapes == {<<"C">>, <<"G">>, <<"D">>, <<"A">>, <<"E">>,
                          <<"A", "m">>, <<"E", "m">>, <<"B", "m">>,
                          <<"F", "#", "m">>, <<"C", "#", "m">>}
               d == (PitchClassOf(RootTokenOf(toKey))
                       - PitchClassOf(RootTokenOf(fromKey))) % 12
               wanted == {v \in 0..7 :
                            \E capo \in 0..12 :
                               /\ v = (d + capo) % 12
                               /\ transposeChordBySemitones(fromKey, -capo) \in shapes}
           IN  /\ \A i \in 1..Len(suggestions) : suggestions[i] \in 0..7
               /\ \A i \in 1..(Len(suggestions) - 1) : suggestions[i] < suggestions[i + 1]
               /\ {suggestions[i] : i \in 1..Len(suggestions)} = wanted

\* from "C" to "D": capo 0, 5, 3 and 10 give the shapes C, G, A and D, the
\* values 2, 7, 5 and 0 in that order, and capo 12 gives 2 again
SuggestedCapoWitness ==
    /\ op = "suggestedCapo"
    /\ fromKey = <<"C">>
    /\ toKey = <<"D">>
    /\ suggestions = <<0, 2, 5, 7>>

\* C17: getAllKeys returns, on every call, one list without duplicates whose
\* entries are all parseable keys, a note token alone (major) or followed by
\* "m" (minor); each of the 12 pitch classes has a major and a minor entry,
\* and the five black-key pitch classes have a sharp and a flat major entry.
AllKeys ==
    op = "allKeys"
        => LET entries == {keys[i] : i \in 1..Len(keys)}
               majors  == {k \in entries : k \in NoteTokens}
               minors  == {k \in entries : k # <<>> /\ k[Len(k)] = "m"
                                             /\ SubSeq(k, 1, Len(k) - 1) \in NoteTokens}
           IN  /\ Cardinality(entries) = Len(keys)
               /\ entries = majors \cup minors
               /\ \A k \in entries : Parseable(k) /\ parseChord(k).ok
               /\ \A c \in 0..11 :
                     /\ \E k \in majors : PitchClassOf(k) = c
                     /\ \E k \in minors : PitchClassOf(RootTokenOf(k)) = c
               /\ \A c \in {1, 3, 6, 8, 10} :
                     /\ \E k \in majors : PitchClassOf(k) = c /\ k[2] = "#"
                     /\ \E k \in majors : PitchClassOf(k) = c /\ k[2] = "b"

\* the list has 31 entries, from "C" to "Bm"
AllKeysWitness ==
    /\ op = "allKeys"
    /\ Len(keys) = 31
    /\ keys[1] = <<"C">>
    /\ keys[31] = <<"B", "m">>

----------------------------------------------------------------------------
(* Inputs of the parser: source texts of at most MaxLines lines, each line *)
(* taken from LinePool and ended by a line feed                            *)

LinePool ==
    {
      <<"T", "i", "t", "l", "e", ":", " ", "X">>,   \* "Title: X"
      <<"T", "i", "t", "l", "e", ":">>,   \* "Title:"
      <<"A", "r", "t", "i", "s", "t", ":", " ", "Y">>,   \* "Artist: Y"
      <<"A", "r", "t", "i", "s", "t", ":">>,   \* "Artist:"
      <<"K", "e", "y", ":", " ", "G">>,   \* "Key: G"
      <<"K", "e", "y", ":">>,   \* "Key:"
      <<"C", "a", "p", "o", ":", " ", "2">>,   \* "Capo: 2"
      <<"C", "a", "p", "o", ":", " ", "a", "b", "c">>,   \* "Capo: abc"
      <<"T", "e", "m", "p", "o", ":", " ", "1", "2", "0">>,   \* "Tempo: 120"
      <<"V", "e", "r", "s", "e", " ", "1", ":">>,   \* "Verse 1:"
      <<"C", "h", "o", "r", "u", "s", ":">>,   \* "Chorus:"
      <<"H", "e", "l", "l", "o", " ", "[", "G", "]", "w", "o", "r", "l", "d", " ", "[", "C", "]", "t", "o", "d", "a", "y">>,   \* "Hello [G]world [C]today"
      <<"[", "A", "m", "]", "[", "C", "]", "[", "G", "]">>,   \* "[Am][C][G]"
      <<"A", "m", "a", "z", "i", "n", "g", " ", "g", "r", "a", "c", "e">>,   \* "Amazing grace"
      <<"{", "t", "i", "t", "l", "e", ":", " ", "L", "i", "v", "e", " ", "[", "G", "]", "}">>,   \* "{title: Live [G]}"
      <<":", ":", ":">>,   \* ":::"
      <<"[", "]", "x", "[">>    \* "[]x["
    }

\* the number of line feeds in a text
RECURSIVE LineFeeds(_)
LineFeeds(text) ==
    IF text = <<>> THEN 0
    ELSE (IF Head(text) = "\n" THEN 1 ELSE 0) + LineFeeds(Tail(text))

----------------------------------------------------------------------------
(* The parser's calls: a text is written, parsed, serialized and parsed    *)
(* again                                                                   *)

PInit ==
    /\ content = <<>>
    /\ song = NoSong
    /\ output = <<>>
    /\ song2 = NoSong
    /\ pc = "input"

\* the transposition engine is not running
TransposerIdle ==
    /\ chord = <<>>
    /\ semitones = 0
    /\ fromKey = <<>>
    /\ toKey = <<>>
    /\ result = <<>>
    /\ back = <<>>
    /\ op = "off"
    /\ suggestions = <<>>
    /\ keys = <<>>

\* one more line of source text
AddLine ==
    /\ pc = "input"
    /\ LineFeeds(content) < MaxLines
    /\ \E l \in LinePool : content' = content \o l \o <<"\n">>
    /\ UNCHANGED <<song, output, song2, pc>>
    /\ UNCHANGED <<tvars, lvars, svars, cvars>>

\* ChordProParser.parseChordPro(content, id)
Parse ==
    /\ pc = "input"
    /\ song' = parseChordPro(content)
    /\ pc' = "parsed"
    /\ UNCHANGED <<content, output, song2>>
    /\ UNCHANGED <<tvars, lvars, svars, cvars>>

\* ChordProParser.songToChordPro(song), of a Song the parser returned
Serialize ==
    /\ pc = "parsed"
    /\ ~song.raised
    /\ output' = songToChordPro(song)
    /\ pc' = "serialized"
    /\ UNCHANGED <<content, song, song2>>
    /\ UNCHANGED <<tvars, lvars, svars, cvars>>

\* ChordProParser.parseChordPro(output, id)
Reparse ==
    /\ pc = "serialized"
    /\ song2' = parseChordPro(output)
    /\ pc' = "reparsed"
    /\ UNCHANGED <<content, song, output>>
    /\ UNCHANGED <<tvars, lvars, svars, cvars>>

PNext ==
    \/ AddLine
    \/ Parse
    \/ Serialize
    \/ Reparse

InitParser == PInit /\ TransposerIdle /\ LoaderIdle /\ StorageIdle /\ ControlsIdle

SpecParser == InitParser /\ [][PNext]_vars

----------------------------------------------------------------------------
(* Song files: texts of at most MaxLines lines taken from the headings,    *)
(* the chord/lyric lines and the header lines of the documented format     *)

SongLinePool ==
    {
      <<"V", "e", "r", "s", "e", " ", "1", ":">>,   \* "Verse 1:"
      <<"C", "h", "o", "r", "u", "s", ":">>,   \* "Chorus:"
      <<"B", "r", "i", "d", "g", "e", " ", "2", ":">>,   \* "Bridge 2:"
      <<"O", "u", "t", "r", "o", "/", "T", "a", "g", ":">>,   \* "Outro/Tag:"
      <<"R", "e", "f", "r", "a", "i", "n", ":">>,   \* "Refrain:"
      <<"B", "r", "i", "d", "g", "e", " ", "t", "o", " ", "C", "h", "o", "r", "u", "s", ":">>,   \* "Bridge to Chorus:"
      <<"[", "G", "]", "V", "e", "r", "s", "e", ":">>,   \* "[G]Verse:"
      <<"H", "e", "l", "l", "o", " ", "[", "G", "]", "w", "o", "r", "l", "d", " ", "[", "C", "]", "t", "o", "d", "a", "y">>,   \* "Hello [G]world [C]today"
      <<"[", "A", "m", "]", "[", "C", "]", "[", "G", "]">>,   \* "[Am][C][G]"
      <<"A", "m", "a", "z", "i", "n", "g", " ", "g", "r", "a", "c", "e">>,   \* "Amazing grace"
      <<"[", "G", "]", "[", "]">>,   \* "[G][]"
      <<"K", "e", "y", ":", " ", "[", "G", "]">>,   \* "Key: [G]"
      <<"O", "r", "i", "g", "i", "n", "a", "l", " ", "K", "e", "y", ":", " ", "D">>,   \* "Original Key: D"
      <<"K", "e", "y", ":", " ", "H">>,   \* "Key: H"
      <<"C", "a", "p", "o", ":", " ", "1", "5">>,   \* "Capo: 15"
      <<"C", "a", "p", "o", ":", " ", "-", "2">>,   \* "Capo: -2"
      <<"{", "t", ":", " ", "[", "G", "]", "}">>   \* "{t: [G]}"
    }

\* one more line of a song file
AddSongLine ==
    /\ pc = "input"
    /\ LineFeeds(content) < MaxLines
    /\ \E l \in SongLinePool : content' = content \o l \o <<"\n">>
    /\ UNCHANGED <<song, output, song2, pc>>
    /\ UNCHANGED <<tvars, lvars, svars, cvars>>

SNext ==
    \/ AddSongLine
    \/ Parse

SpecSongFile == InitParser /\ [][SNext]_vars

----------------------------------------------------------------------------
(* Claims about the parser *)

\* C1 (as stated): parsing the serialized form of a parsed Song gives the
\* same title, artist, originalKey, capoPosition, tempo and sections (kind,
\* name, lines, lyrics, chord annotations) as the first parse.
ParserRoundTrip ==
    pc = "reparsed"
        => /\ ~song2.raised
           /\ song2.title = song.title
           /\ song2.artist = song.artist
           /\ song2.originalKey = song.originalKey
           /\ song2.capoPosition = song.capoPosition
           /\ song2.tempo = song.tempo
           /\ song2.sections = song.sections

\* the lines of a text, trimmed
TrimmedLines(text) ==
    LET lines == Split(text, "\n") IN [i \in 1..Len(lines) |-> Trim(lines[i])]

\* a section heading: a line that ends in ':', holds no bracketed chord and
\* names verse, chorus, bridge, intro, outro or tag
IsHeadingLine(line) ==
    /\ line # <<>>
    /\ line[Len(line)] = ":"
    /\ ~containsChords(line)
    /\ \E word \in {<<"v", "e", "r", "s", "e">>,
                      <<"c", "h", "o", "r", "u", "s">>,
                      <<"b", "r", "i", "d", "g", "e">>,
                      <<"i", "n", "t", "r", "o">>,
                      <<"o", "u", "t", "r", "o">>,
                      <<"t", "a", "g">>} :
          Includes(toLowerCase(line), word)

SectionKinds == {"verse", "chorus", "bridge", "intro", "outro"}

\* C9: parseChordPro returns a Song for every text and never throws; a text
\* without a section heading gives a Song with no sections.
ParseIsTotal ==
    /\ pc \in {"parsed", "serialized", "reparsed"}
         => /\ ~song.raised
            /\ song.title # <<>> /\ song.artist # <<>> /\ song.originalKey # <<>>
            /\ \A k \in 1..Len(song.sections) : song.sections[k].type \in SectionKinds
            /\ LET lines == TrimmedLines(content)
               IN  (\A i \in 1..Len(lines) : ~IsHeadingLine(lines[i]))
                      => song.sections = <<>>
    /\ pc = "reparsed" => ~song2.raised

\* lyrics, empty and unbalanced brackets and colons, all before any heading
ParseIsTotalWitness ==
    /\ pc = "parsed"
    /\ content = <<"A", "m", "a", "z", "i", "n", "g", " ", "g", "r", "a", "c", "e">> \o <<"\n">> \o <<"[", "]", "x", "[">> \o <<"\n">> \o <<":", ":", ":">> \o <<"\n">>
    /\ ~song.raised
    /\ song.sections = <<>>

\* every one of the (trimmed) lines that names `word`, or is a {...} directive,
\* is one of emptyForms: headers that give no usable value
OnlyGiven(lines, word, emptyForms) ==
    \A i \in 1..Len(lines) :
        (Includes(toLowerCase(lines[i]), word) \/ StartsWith(lines[i], <<"{">>))
            => lines[i] \in emptyForms

\* C10: a missing or empty title, artist or key and a missing or non-numeric
\* capo give "Unknown Title", "Unknown Artist", "C" and 0; capoPosition is
\* never NaN.
DocumentedDefaults ==
    pc = "parsed"
        => LET metadata == parseLoop(content).metadata
               lines == TrimmedLines(content)
               missing(x) == x = Undefined \/ x[1] = <<>>
           IN  /\ missing(metadata.title) => song.title = <<"U", "n", "k", "n", "o", "w", "n", " ", "T", "i", "t", "l", "e">>
               /\ missing(metadata.artist) => song.artist = <<"U", "n", "k", "n", "o", "w", "n", " ", "A", "r", "t", "i", "s", "t">>
               /\ (missing(metadata.originalKey) /\ missing(metadata.key))
                    => song.originalKey = <<"C">>
               /\ (metadata.capo = Undefined \/ metadata.capo[1].nan)
                    => song.capoPosition = Num(0)
               /\ ~song.capoPosition.nan
               /\ OnlyGiven(lines, <<"t", "i", "t", "l", "e">>, {<<"T", "i", "t", "l", "e", ":">>})
                    => song.title = <<"U", "n", "k", "n", "o", "w", "n", " ", "T", "i", "t", "l", "e">>
               /\ OnlyGiven(lines, <<"a", "r", "t", "i", "s", "t">>, {<<"A", "r", "t", "i", "s", "t", ":">>})
                    => song.artist = <<"U", "n", "k", "n", "o", "w", "n", " ", "A", "r", "t", "i", "s", "t">>
               /\ OnlyGiven(lines, <<"k", "e", "y">>, {<<"K", "e", "y", ":">>})
                    => song.originalKey = <<"C">>
               /\ OnlyGiven(lines, <<"c", "a", "p", "o">>, {<<"C", "a", "p", "o", ":", " ", "a", "b", "c">>})
                    => song.capoPosition = Num(0)

\* an empty title, an empty key and a non-numeric capo
DocumentedDefaultsWitness ==
    /\ pc = "parsed"
    /\ content = <<"T", "i", "t", "l", "e", ":">> \o <<"\n">> \o <<"K", "e", "y", ":">> \o <<"\n">> \o <<"C", "a", "p", "o", ":", " ", "a", "b", "c">> \o <<"\n">>
    /\ song.title = <<"U", "n", "k", "n", "o", "w", "n", " ", "T", "i", "t", "l", "e">>
    /\ song.originalKey = <<"C">>
    /\ song.capoPosition = Num(0)

----------------------------------------------------------------------------
(* Vocabulary of the claims about song files, stated from the format's     *)
(* description: tokens, headings, headers and content lines                *)

\* the index of the ']' that closes the [token] opening at index i: the first
\* ']' after i, with at least one character in between; 0 when no token opens
\* at i
TokenEnd(line, i) ==
    IF line[i] # "[" THEN 0
    ELSE LET closers == {j \in (i + 1)..Len(line) : line[j] = "]"}
         IN  IF closers = {} THEN 0
             ELSE LET j == CHOOSE c \in closers : \A d \in closers : c <= d
                  IN  IF j = i + 1 THEN 0 ELSE j

\* a left-to-right scan of the line from index i: the lyrics are the
\* characters outside the tokens, a token gives an annotation at the number
\* of lyric characters before it, and literals are the stretches of text
\* between the tokens (open is the stretch being read)
RECURSIVE Decompose(_, _, _, _, _, _)
Decompose(line, i, lyrics, chords, literals, open) ==
    IF i > Len(line)
    THEN [lyrics |-> lyrics, chords |-> chords, literals |-> Append(literals, open)]
    ELSE LET j == TokenEnd(line, i)
         IN  IF j = 0
             THEN Decompose(line, i + 1, Append(lyrics, line[i]), chords,
                            literals, Append(open, line[i]))
             ELSE Decompose(line, j + 1, lyrics,
                            Append(chords, [chord |-> SubSeq(line, i + 1, j - 1),
                                            position |-> Len(lyrics)]),
                            Append(literals, open), <<>>)

Decomposed(line) == Decompose(line, 1, <<>>, <<>>, <<>>, <<>>)

\* the format has no way to write a literal bracket: a line with a token next
\* to a stretch of text that itself begins with '[' and ends with ']' is not
\* a line of the format
WrappedLiteral(line) ==
    LET d == Decomposed(line)
    IN  /\ d.chords # <<>>
        /\ \E k \in 1..Len(d.literals) :
              LET t == d.literals[k]
              IN  t # <<>> /\ Head(t) = "[" /\ t[Len(t)] = "]"

HasToken(line) == \E i \in 1..Len(line) : TokenEnd(line, i) # 0

HasColon(line) == \E i \in 1..Len(line) : line[i] = ":"

IsDirectiveLine(line) == line # <<>> /\ Head(line) = "{" /\ line[Len(line)] = "}"

\* a content line: not blank, no directive, no heading, and no header (a
\* header holds a colon and no token)
IsContentLine(line) ==
    /\ line # <<>>
    /\ ~IsDirectiveLine(line)
    /\ ~IsHeadingLine(line)
    /\ (HasColon(line) => HasToken(line))

\* the members of a set of numbers in ascending order
RECURSIVE Ascending(_)
Ascending(set) ==
    IF set = {} THEN <<>>
    ELSE LET least == CHOOSE a \in set : \A b \in set : a <= b
         IN  <<least>> \o Ascending(set \ {least})

\* what each line of a text is
LineClasses(lines) ==
    [i \in 1..Len(lines) |->
        IF IsHeadingLine(lines[i]) THEN "heading"
        ELSE IF IsContentLine(lines[i]) THEN "content"
        ELSE "other"]

\* the indices of the heading lines, in source order
Headings(classes) == Ascending({i \in 1..Len(classes) : classes[i] = "heading"})

\* the content lines that follow the k-th heading, up to the next heading
ContentOf(lines, classes, heads, k) ==
    LET upTo == IF k < Len(heads) THEN heads[k + 1] ELSE Len(lines) + 1
        at   == Ascending({i \in (heads[k] + 1)..(upTo - 1) : classes[i] = "content"})
    IN  [j \in 1..Len(at) |-> lines[at[j]]]

\* a heading without its colon
HeadingName(line) == SubSeq(line, 1, Len(line) - 1)

----------------------------------------------------------------------------
(* Claims about song files *)

KindOf(heading) ==
    LET lower     == toLowerCase(heading)
        has(word) == Includes(lower, word)
    IN  IF has(<<"c", "h", "o", "r", "u", "s">>) THEN "chorus"
        ELSE IF has(<<"b", "r", "i", "d", "g", "e">>) THEN "bridge"
        ELSE IF has(<<"i", "n", "t", "r", "o">>) THEN "intro"
        ELSE IF has(<<"o", "u", "t", "r", "o">>) \/ has(<<"t", "a", "g">>) THEN "outro"
        ELSE "verse"

\* C12: the section of every heading has the kind KindOf(heading) and the
\* heading without its trailing colon as display name; "Chorus:", "Bridge 2:"
\* and "Outro/Tag:" give chorus, bridge and outro, "Verse 1:" gives verse, and
\* createSection gives verse for a heading it does not recognize.
SectionKindInference ==
    pc = "parsed"
        => LET lines   == TrimmedLines(content)
               classes == LineClasses(lines)
               heads   == Headings(classes)
           IN  /\ Len(song.sections) = Len(heads)
               /\ \A k \in 1..Len(heads) :
                     LET heading == lines[heads[k]]
                         section == song.sections[k]
                     IN  /\ section.type = KindOf(heading)
                         /\ section.name = HeadingName(heading)
                         /\ heading = <<"C", "h", "o", "r", "u", "s", ":">> => section.type = "chorus"
                         /\ heading = <<"B", "r", "i", "d", "g", "e", " ", "2", ":">> => section.type = "bridge"
                         /\ heading = <<"O", "u", "t", "r", "o", "/", "T", "a", "g", ":">> => section.type = "outro"
                         /\ heading = <<"V", "e", "r", "s", "e", " ", "1", ":">> => section.type = "verse"
               /\ \A i \in 1..Len(lines) :
                     (lines[i] # <<>> /\ lines[i][Len(lines[i])] = ":" /\ classes[i] # "heading")
                        => createSection(lines[i]).type = "verse"

\* the three headings of the example, and a heading that names no section
SectionKindWitness ==
    /\ pc = "parsed"
    /\ content \in {<<"C", "h", "o", "r", "u", "s", ":">> \o <<"\n">> \o <<"B", "r", "i", "d", "g", "e", " ", "2", ":">> \o <<"\n">> \o <<"O", "u", "t", "r", "o", "/", "T", "a", "g", ":">> \o <<"\n">>,
                     <<"R", "e", "f", "r", "a", "i", "n", ":">> \o <<"\n">> \o <<"O", "u", "t", "r", "o", "/", "T", "a", "g", ":">> \o <<"\n">>}
    /\ Len(song.sections) \in {1, 3}
    /\ song.sections[Len(song.sections)].type = "outro"
    /\ song.sections[Len(song.sections)].name = <<"O", "u", "t", "r", "o", "/", "T", "a", "g">>

\* C13: parse returns one Section per heading line, in source order; the
\* Section of a heading holds exactly the content lines between that heading
\* and the next one, in source order; content lines before the first heading
\* are in no Section.
SectionsFollowSource ==
    pc = "parsed"
        => LET lines   == TrimmedLines(content)
               classes == LineClasses(lines)
               heads   == Headings(classes)
           IN  /\ Len(song.sections) = Len(heads)
               /\ \A k \in 1..Len(heads) :
                     LET source  == ContentOf(lines, classes, heads, k)
                         section == song.sections[k]
                     IN  /\ section.name = HeadingName(lines[heads[k]])
                         /\ Len(section.content) = Len(source)
                         /\ \A j \in 1..Len(source) :
                               section.content[j] = parseChordLyricLine(source[j])[1]

\* a line before the first heading, a verse of one line, that a chorus closes
SectionsWitness ==
    /\ pc = "parsed"
    /\ content \in {<<"A", "m", "a", "z", "i", "n", "g", " ", "g", "r", "a", "c", "e">> \o <<"\n">> \o <<"V", "e", "r", "s", "e", " ", "1", ":">> \o <<"\n">> \o <<"[", "A", "m", "]", "[", "C", "]", "[", "G", "]">> \o <<"\n">>,
                     <<"V", "e", "r", "s", "e", " ", "1", ":">> \o <<"\n">> \o <<"A", "m", "a", "z", "i", "n", "g", " ", "g", "r", "a", "c", "e">> \o <<"\n">> \o <<"C", "h", "o", "r", "u", "s", ":">> \o <<"\n">>}
    /\ Len(song.sections) \in {1, 2}
    /\ song.sections[1].name = <<"V", "e", "r", "s", "e", " ", "1">>
    /\ Len(song.sections[1].content) = 1
    /\ song.sections[1].content[1].lyrics \in {<<>>, <<"A", "m", "a", "z", "i", "n", "g", " ", "g", "r", "a", "c", "e">>}

\* C14 (as stated): a header line "Key: [G]" before any section, in a text
\* with no other key line, makes parse return originalKey "G".
BracketedKeyHeader ==
    pc = "parsed"
        => LET lines == TrimmedLines(content)
               keyLine == <<"K", "e", "y", ":", " ", "[", "G", "]">>
           IN  (/\ \E i \in 1..Len(lines) :
                      lines[i] = keyLine /\ \A h \in 1..(i - 1) : ~IsHeadingLine(lines[h])
                /\ \A i \in 1..Len(lines) :
                      Includes(toLowerCase(lines[i]), <<"k", "e", "y">>) => lines[i] = keyLine)
                  => song.originalKey = <<"G">>

\* C18 (as stated): the originalKey of every parsed Song begins with a note
\* token and its capoPosition is an integer in 0..12.
SongInvariant ==
    pc = "parsed"
        => /\ RootTokenOf(song.originalKey) # <<>>
           /\ ~song.capoPosition.nan
           /\ song.capoPosition.v \in 0..12

\* C19: in every Line of every Song that parse returns, every annotation's
\* position lies in 0..Len(lyrics) and the annotations are stored in
\* non-decreasing order of position.
ChordOffsetInvariant ==
    LET inOrder(s) ==
            \A k \in 1..Len(s.sections) :
              \A j \in 1..Len(s.sections[k].content) :
                LET line == s.sections[k].content[j]
                IN  /\ \A c \in 1..Len(line.chords) :
                          line.chords[c].position \in 0..Len(line.lyrics)
                    /\ \A c \in 1..(Len(line.chords) - 1) :
                          line.chords[c].position <= line.chords[c + 1].position
    IN  pc = "parsed" => inOrder(song)

\* a line of 17 lyric characters with annotations at 6 and 12
ChordOffsetWitness ==
    /\ pc = "parsed"
    /\ \E k \in 1..Len(song.sections) :
          \E j \in 1..Len(song.sections[k].content) :
            LET line == song.sections[k].content[j]
            IN  /\ Len(line.lyrics) = 17
                /\ Len(line.chords) = 2
                /\ line.chords[1].position = 6
                /\ line.chords[2].position = 12

----------------------------------------------------------------------------
(* The data loader's calls. getSongById runs up to its first await when it *)
(* is called; every await hands control to the other callers' calls        *)
(* (preloadSongs starts all its getSongById calls before it awaits any,    *)
(* and loadSongs and getSetlistWithSongs run beside the views' own calls). *)

LInit ==
    /\ individualSongsCache = EmptyCache
    /\ calls = [p \in Callers |-> NoCall]
    /\ parsed = [id \in SongIds |-> 0]
    /\ returned = [id \in SongIds |-> {}]
    /\ made = 0

\* getSongById(id) up to the first await: the cache check returns the cached
\* Song, else fetch() is started
GetSongById(p, id) ==
    /\ calls[p].pc \in {"idle", "done"}
    /\ IF individualSongsCache[id] # Undefined
       THEN /\ calls' = [calls EXCEPT ![p] =
                          [pc |-> "done", id |-> id, ret |-> Some(individualSongsCache[id][1])]]
            /\ returned' = [returned EXCEPT ![id] = @ \cup {individualSongsCache[id][1]}]
       ELSE /\ made + Cardinality(InFlight) < MaxSongs
            /\ calls' = [calls EXCEPT ![p] = [pc |-> "fetch", id |-> id, ret |-> Undefined]]
            /\ UNCHANGED returned
    /\ UNCHANGED <<individualSongsCache, parsed, made>>
    /\ UNCHANGED <<tvars, pvars, svars, cvars>>

\* the response arrives and response.ok holds: await response.text()
ResponseOk(p) ==
    /\ calls[p].pc = "fetch"
    /\ calls' = [calls EXCEPT ![p].pc = "text"]
    /\ UNCHANGED <<individualSongsCache, parsed, returned, made>>
    /\ UNCHANGED <<tvars, pvars, svars, cvars>>

\* fetch() rejects, response.ok is false or response.text() rejects: the
\* catch block returns null and caches nothing
LoadFails(p) ==
    /\ calls[p].pc \in {"fetch", "text"}
    /\ calls' = [calls EXCEPT ![p].pc = "done", ![p].ret = Some(Null)]
    /\ UNCHANGED <<individualSongsCache, parsed, returned, made>>
    /\ UNCHANGED <<tvars, pvars, svars, cvars>>

\* the text arrives: parseChordPro, individualSongsCache.set, return song
TextArrives(p) ==
    /\ calls[p].pc = "text"
    /\ LET id   == calls[p].id
           built == [id |-> id, n |-> made + 1]
       IN  /\ individualSongsCache' = [individualSongsCache EXCEPT ![id] = Some(built)]
           /\ calls' = [calls EXCEPT ![p].pc = "done", ![p].ret = Some(built)]
           /\ parsed' = [parsed EXCEPT ![id] = @ + 1]
           /\ returned' = [returned EXCEPT ![id] = @ \cup {built}]
    /\ made' = made + 1
    /\ UNCHANGED <<tvars, pvars, svars, cvars>>

\* clearCache(), as far as the songs go; the claims count from here again
ClearCache ==
    /\ individualSongsCache' = EmptyCache
    /\ parsed' = [id \in SongIds |-> 0]
    /\ returned' = [id \in SongIds |-> {}]
    /\ UNCHANGED <<calls, made>>
    /\ UNCHANGED <<tvars, pvars, svars, cvars>>

LNext ==
    \/ \E p \in Callers, id \in SongIds : GetSongById(p, id)
    \/ \E p \in Callers : ResponseOk(p)
    \/ \E p \in Callers : LoadFails(p)
    \/ \E p \in Callers : TextArrives(p)
    \/ ClearCache

InitLoader == LInit /\ TransposerIdle /\ ParserIdle /\ StorageIdle /\ ControlsIdle

SpecLoader == InitLoader /\ [][LNext]_vars

----------------------------------------------------------------------------
(* Claims about the data loader *)

\* C20 (as stated): between two clearCache calls every song id is parsed at
\* most once and all successful getSongById(id) calls return one and the same
\* Song object, however the calls overlap.
CachedAfterFirstLoad ==
    \A id \in SongIds :
        /\ parsed[id] <= 1
        /\ Cardinality(returned[id]) <= 1

----------------------------------------------------------------------------
(* SetlistStorageService: the setlists in localStorage. A Setlist is       *)
(* [id, name, songs] and a SetlistSong is [songId, order]; descriptions,   *)
(* dates and tags are carried along by the code and never read by it, and  *)
(* are left out. Each method is a function from the stored setlists and    *)
(* its arguments to what it throws or returns and what it hands to         *)
(* saveSetlists. The awaits inside the methods wait for values that are    *)
(* already there (localStorage is synchronous), so a call made from an     *)
(* event handler has finished before the next event is handled.            *)

\* at most MaxSetlists setlists are stored at a time
MaxSetlists == 2

CURRENT_VERSION == "1.0"

\* the ids uuidv4() draws from
SetlistIds == 1..MaxSetlists

\* the songs of the library
Library == {"amazing-grace", "how-great-thou-art", "be-thou-my-vision", "it-is-well"}

\* uuidv4(): an id that no stored setlist has
uuidv4(setlists) ==
    CHOOSE id \in SetlistIds :
        /\ \A i \in 1..Len(setlists) : setlists[i].id # id
        /\ \A other \in SetlistIds :
              (\A i \in 1..Len(setlists) : setlists[i].id # other) => id <= other

\* JSON.parse(localStorage.getItem(SETLISTS)), [] when the item is missing
getStoredSetlists ==
    IF SETLISTS = Undefined THEN <<>> ELSE SETLISTS[1]

\* JSON.parse(localStorage.getItem(METADATA)), [] when the item is missing
getAllSetlists ==
    IF METADATA = Undefined THEN <<>> ELSE METADATA[1]

\* the SetlistMetadata entry saveSetlists derives from a Setlist
MetadataOf(setlist) ==
    [id |-> setlist.id, name |-> setlist.name, songCount |-> Len(setlist.songs)]

\* a variant that writes the setlists and leaves the metadata item as it is
saveSetlists_StaleMetadata(setlists) ==
    /\ SETLISTS' = Some(setlists)
    /\ UNCHANGED METADATA

\* saveSetlists(setlists): both items are written
saveSetlists(setlists) ==
    /\ SETLISTS' = Some(setlists)
    /\ METADATA' = Some([i \in 1..Len(setlists) |-> MetadataOf(setlists[i])])

\* a method that throws: nothing was handed to saveSetlists
Thrown(message) ==
    [error |-> message, value |-> "", saved |-> Undefined]

\* a method that returns value after saveSetlists(setlists)
Saved(value, setlists) ==
    [error |-> "", value |-> value, saved |-> Some(setlists)]

\* setlists.findIndex(setlist => setlist.id === id), 1-based, 0 when absent
findIndex(setlists, id) ==
    IF \E i \in 1..Len(setlists) : setlists[i].id = id
    THEN CHOOSE i \in 1..Len(setlists) :
            /\ setlists[i].id = id
            /\ \A j \in 1..(i - 1) : setlists[j].id # id
    ELSE 0

\* getSetlist(id): the stored setlist or null
getSetlist(setlists, id) ==
    IF findIndex(setlists, id) = 0 THEN Undefined
    ELSE Some(setlists[findIndex(setlists, id)])

\* createSetlist(setlistData)
createSetlist(setlists, setlistData) ==
    Saved("ok", Append(setlists, [id |-> uuidv4(setlists),
                                  name |-> setlistData.name,
                                  songs |-> setlistData.songs]))

\* { ...setlist, ...updates }
Spread(setlist, updates) ==
    [f \in DOMAIN setlist |-> IF f \in DOMAIN updates THEN updates[f] ELSE setlist[f]]

\* updateSetlist(id, updates)
updateSetlist(setlists, id, updates) ==
    LET index == findIndex(setlists, id)
    IN  IF index = 0 THEN Thrown("Setlist with id not found")
        ELSE Saved("ok", [setlists EXCEPT ![index] = Spread(setlists[index], updates)])

\* deleteSetlist(id)
deleteSetlist(setlists, id) ==
    LET index == findIndex(setlists, id)
    IN  IF index = 0 THEN [error |-> "", value |-> "false", saved |-> Undefined]
        ELSE Saved("true", SubSeq(setlists, 1, index - 1)
                             \o SubSeq(setlists, index + 1, Len(setlists)))

\* duplicateSetlist(id, newName)
duplicateSetlist(setlists, id, newName) ==
    LET originalSetlist == getSetlist(setlists, id)
    IN  IF originalSetlist = Undefined THEN Thrown("Setlist with id not found")
        ELSE createSetlist(setlists, [name |-> newName, songs |-> originalSetlist[1].songs])

\* a variant that never finds the song
alreadyInSetlist_Never(songs, songId) ==
    FALSE

\* setlist.songs.some(song => song.songId === songId)
alreadyInSetlist(songs, songId) ==
    \E i \in 1..Len(songs) : songs[i].songId = songId

\* one step of the stable sort by order
InsertByOrder(sorted, s) ==
    LET before == {i \in 1..Len(sorted) : sorted[i].order <= s.order}
        k      == IF before = {} THEN 0
                  ELSE CHOOSE i \in before : \A j \in before : j <= i
    IN  IF \A i \in 1..Len(sorted) : sorted[i].order <= s.order
        THEN Append(sorted, s)
        ELSE LET first == CHOOSE i \in 1..Len(sorted) :
                              /\ sorted[i].order > s.order
                              /\ \A j \in 1..(i - 1) : sorted[j].order <= s.order
             IN  SubSeq(sorted, 1, first - 1) \o <<s>> \o SubSeq(sorted, first, Len(sorted))

RECURSIVE SortByOrder(_)
\* songs.sort((a, b) => a.order - b.order)
SortByOrder(songs) ==
    IF songs = <<>> THEN <<>>
    ELSE InsertByOrder(SortByOrder(SubSeq(songs, 1, Len(songs) - 1)), songs[Len(songs)])

\* addSongToSetlist(setlistId, songId, position); position is optional
addSongToSetlist(setlists, setlistId, songId, position) ==
    LET setlist == getSetlist(setlists, setlistId)
    IN  IF setlist = Undefined THEN Thrown("Setlist with id not found")
        ELSE IF alreadyInSetlist(setlist[1].songs, songId)
        THEN Thrown("Song is already in this setlist")
        ELSE LET songs   == setlist[1].songs
                 newSong == [songId |-> songId,
                             order |-> IF position # Undefined THEN position[1] ELSE Len(songs)]
                 shifted == IF position # Undefined
                            THEN [i \in 1..Len(songs) |->
                                    IF songs[i].order >= position[1]
                                    THEN [songs[i] EXCEPT !.order = @ + 1]
                                    ELSE songs[i]]
                            ELSE songs
             IN  updateSetlist(setlists, setlistId,
                               [songs |-> SortByOrder(Append(shifted, newSong))])

\* a variant that leaves the orders of the remaining songs as they were
removeSong_OrdersKept(songs, songIndex) ==
    SubSeq(songs, 1, songIndex - 1) \o SubSeq(songs, songIndex + 1, Len(songs))

\* splice(songIndex, 1) and the renumbering of the songs after the removed one
removeSong(songs, songIndex) ==
    LET removedOrder == songs[songIndex].order
        spliced == SubSeq(songs, 1, songIndex - 1) \o SubSeq(songs, songIndex + 1, Len(songs))
    IN  [i \in 1..Len(spliced) |->
            IF spliced[i].order > removedOrder
            THEN [spliced[i] EXCEPT !.order = @ - 1]
            ELSE spliced[i]]

\* removeSongFromSetlist(setlistId, songId)
removeSongFromSetlist(setlists, setlistId, songId) ==
    LET setlist == getSetlist(setlists, setlistId)
    IN  IF setlist = Undefined THEN Thrown("Setlist with id not found")
        ELSE LET songs == setlist[1].songs
             IN  IF ~ \E i \in 1..Len(songs) : songs[i].songId = songId
                 THEN Thrown("Song not found in setlist")
                 ELSE LET songIndex == CHOOSE i \in 1..Len(songs) :
                                          /\ songs[i].songId = songId
                                          /\ \A j \in 1..(i - 1) : songs[j].songId # songId
                      IN  updateSetlist(setlists, setlistId,
                                        [songs |-> removeSong(songs, songIndex)])

\* reorderSetlistSongs(setlistId, fromIndex, toIndex); the indices count from 0
reorderSetlistSongs(setlists, setlistId, fromIndex, toIndex) ==
    LET setlist == getSetlist(setlists, setlistId)
    IN  IF setlist = Undefined THEN Thrown("Setlist with id not found")
        ELSE LET songs == SortByOrder(setlist[1].songs)
             IN  IF \/ fromIndex < 0 \/ fromIndex >= Len(songs)
                    \/ toIndex < 0 \/ toIndex >= Len(songs)
                 THEN Thrown("Invalid song indices")
                 ELSE LET movedSong == songs[fromIndex + 1]
                          without == SubSeq(songs, 1, fromIndex)
                                       \o SubSeq(songs, fromIndex + 2, Len(songs))
                          moved   == SubSeq(without, 1, toIndex) \o <<movedSong>>
                                       \o SubSeq(without, toIndex + 1, Len(without))
                      IN  updateSetlist(setlists, setlistId,
                              [songs |-> [i \in 1..Len(moved) |->
                                            [moved[i] EXCEPT !.order = i - 1]]])

RECURSIVE PushImported(_, _)
\* the loop of importSetlists: every imported setlist gets a new id
PushImported(existingSetlists, imported) ==
    IF imported = <<>> THEN existingSetlists
    ELSE PushImported(Append(existingSetlists,
                             [id |-> uuidv4(existingSetlists),
                              name |-> imported[1].name,
                              songs |-> imported[1].songs]),
                      Tail(imported))

\* importSetlists(data); data is what JSON.parse(data).setlists gives, or
\* Undefined when the text is no JSON or has no setlists array
importSetlists(setlists, data) ==
    IF data = Undefined THEN Thrown("Failed to import setlists")
    ELSE Saved("ok", PushImported(setlists, data[1]))

\* the constructor has run in a browser that never stored setlists
StorageReady ==
    /\ SETLISTS = Some(<<>>)
    /\ METADATA = Some(<<>>)
    /\ VERSION = Some(CURRENT_VERSION)

\* no migrateLegacySetlists call was made
NoMigration ==
    /\ migrations = <<>>
    /\ migrated = <<>>
    /\ started = 0

\* a storage call ends: what it threw or returned is kept, and what it handed
\* to saveSetlists is written
Finish(call, r) ==
    /\ outcome' = [call |-> call, result |-> IF r.error # "" THEN r.error ELSE r.value]
    /\ IF r.saved # Undefined
       THEN saveSetlists(r.saved[1])
       ELSE UNCHANGED <<SETLISTS, METADATA>>
    /\ UNCHANGED <<VERSION, songLibrary>>

\* the number of songs of the stored setlist id, 0 when there is none
CountOf(id) ==
    IF getSetlist(getStoredSetlists, id) = Undefined THEN 0
    ELSE Len(getSetlist(getStoredSetlists, id)[1].songs)

\* the positions an insertion can name: none, or 0..count
Positions(id) ==
    {Undefined} \cup {Some(k) : k \in 0..CountOf(id)}

AddSongToSetlist(id, songId) ==
    /\ \E position \in Positions(id) :
          Finish("addSongToSetlist",
                 addSongToSetlist(getStoredSetlists, id, songId, position))
    /\ UNCHANGED <<migrations, migrated, started>>
    /\ UNCHANGED <<tvars, pvars, lvars, cvars>>

RemoveSongFromSetlist(id, songId) ==
    /\ Finish("removeSongFromSetlist", removeSongFromSetlist(getStoredSetlists, id, songId))
    /\ UNCHANGED <<migrations, migrated, started>>
    /\ UNCHANGED <<tvars, pvars, lvars, cvars>>

\* the indices range over the valid ones and the first one beyond them
ReorderSetlistSongs(id) ==
    /\ \E fromIndex \in 0..CountOf(id), toIndex \in 0..CountOf(id) :
          Finish("reorderSetlistSongs",
                 reorderSetlistSongs(getStoredSetlists, id, fromIndex, toIndex))
    /\ UNCHANGED <<migrations, migrated, started>>
    /\ UNCHANGED <<tvars, pvars, lvars, cvars>>

\* one empty setlist was created and is being edited
SongsInit ==
    /\ SETLISTS = Some(<<[id |-> 1, name |-> "Sunday", songs |-> <<>>]>>)
    /\ METADATA = Some(<<[id |-> 1, name |-> "Sunday", songCount |-> 0]>>)
    /\ VERSION = Some(CURRENT_VERSION)
    /\ songLibrary = Library
    /\ outcome = [call |-> "createSetlist", result |-> "ok"]
    /\ NoMigration

SongsNext ==
    \/ \E id \in SetlistIds, songId \in songLibrary : AddSongToSetlist(id, songId)
    \/ \E id \in SetlistIds, songId \in songLibrary : RemoveSongFromSetlist(id, songId)
    \/ \E id \in SetlistIds : ReorderSetlistSongs(id)

InitSetlistSongs == SongsInit /\ TransposerIdle /\ ParserIdle /\ LoaderIdle /\ ControlsIdle

SpecSetlistSongs == InitSetlistSongs /\ [][SongsNext]_vars

----------------------------------------------------------------------------
(* Claims about the songs of a setlist *)

\* the song ids of a stored song list
SongIdsOf(songs) == {songs[i].songId : i \in 1..Len(songs)}

\* C21: adding a song that the setlist already holds throws 'Song is already
\* in this setlist' and saves nothing, and no stored setlist holds a song id
\* twice.
NoDuplicateSongs ==
    /\ \A i \in 1..Len(getStoredSetlists) :
          Cardinality(SongIdsOf(getStoredSetlists[i].songs))
              = Len(getStoredSetlists[i].songs)
    /\ \A i \in 1..Len(getStoredSetlists) :
          \A songId \in SongIdsOf(getStoredSetlists[i].songs) :
              \A position \in Positions(getStoredSetlists[i].id) :
                  LET r == addSongToSetlist(getStoredSetlists, getStoredSetlists[i].id,
                                            songId, position)
                  IN  /\ r.error = "Song is already in this setlist"
                      /\ r.saved = Undefined
    /\ (outcome.call = "addSongToSetlist"
          /\ outcome.result = "Song is already in this setlist")
         => getAllSetlists = [i \in 1..Len(getStoredSetlists) |->
                                 MetadataOf(getStoredSetlists[i])]

\* C21 witness: a second add of a song was rejected on a setlist of three
NoDuplicateSongsWitness ==
    /\ outcome = [call |-> "addSongToSetlist", result |-> "Song is already in this setlist"]
    /\ Len(getStoredSetlists) = 1
    /\ Len(getStoredSetlists[1].songs) = 3

----------------------------------------------------------------------------
(* SetlistMigrationService.migrateLegacySetlists. The call checks          *)
(* getAllSetlists when it is made, then waits for the data loader's fetch  *)
(* of the legacy file, then creates the setlists one by one; other calls   *)
(* and the user's own setlist operations run during the waits.             *)

\* at most MaxMigrations calls of migrateLegacySetlists are made
MaxMigrations == 3

\* what dataLoader.loadSetlists() delivers from /data/setlists/setlists.json
LegacySetlists ==
    << [name |-> "Sunday Morning",
        songs |-> << [songId |-> "amazing-grace", order |-> 0],
                     [songId |-> "how-great-thou-art", order |-> 1] >>],
       [name |-> "Youth Night",
        songs |-> << [songId |-> "it-is-well", order |-> 0] >>] >>

\* convertLegacySetlist(legacySetlist)
convertLegacySetlist(legacySetlist) ==
    [name |-> legacySetlist.name,
     songs |-> [i \in 1..Len(legacySetlist.songs) |->
                  [songId |-> legacySetlist.songs[i].songId,
                   order |-> legacySetlist.songs[i].order]]]

\* a caller that is not inside migrateLegacySetlists
NoMigrationCall == [pc |-> "idle", next |-> 0]

MInit ==
    /\ StorageReady
    /\ songLibrary = Library
    /\ outcome = [call |-> "constructor", result |-> "ok"]
    /\ migrations = [p \in Callers |-> NoMigrationCall]
    /\ migrated = [l \in 1..Len(LegacySetlists) |-> 0]
    /\ started = 0

\* migrateLegacySetlists() up to its second await: getAllSetlists is read, and
\* with an entry in it the call returns, else loadLegacySetlists() is started
MigrateLegacySetlists(p) ==
    /\ migrations[p].pc \in {"idle", "done"}
    /\ started < MaxMigrations
    /\ started' = started + 1
    /\ migrations' = [migrations EXCEPT ![p] =
                        IF Len(getAllSetlists) > 0
                        THEN [pc |-> "done", next |-> 0]
                        ELSE [pc |-> "loading", next |-> 0]]
    /\ UNCHANGED <<SETLISTS, METADATA, VERSION, songLibrary, outcome, migrated>>
    /\ UNCHANGED <<tvars, pvars, lvars, cvars>>

\* dataLoader.loadSetlists() resolves with the legacy setlists
LegacyLoaded(p) ==
    /\ migrations[p].pc = "loading"
    /\ migrations' = [migrations EXCEPT ![p] =
                        IF Len(LegacySetlists) = 0
                        THEN [pc |-> "done", next |-> 0]
                        ELSE [pc |-> "creating", next |-> 1]]
    /\ UNCHANGED <<SETLISTS, METADATA, VERSION, songLibrary, outcome, migrated, started>>
    /\ UNCHANGED <<tvars, pvars, lvars, cvars>>

\* dataLoader.loadSetlists() rejects: loadLegacySetlists returns [] and the
\* call returns
LegacyLoadFails(p) ==
    /\ migrations[p].pc = "loading"
    /\ migrations' = [migrations EXCEPT ![p] = [pc |-> "done", next |-> 0]]
    /\ UNCHANGED <<SETLISTS, METADATA, VERSION, songLibrary, outcome, migrated, started>>
    /\ UNCHANGED <<tvars, pvars, lvars, cvars>>

\* one round of the loop: await setlistStorage.createSetlist(...)
MigrateNext(p) ==
    /\ migrations[p].pc = "creating"
    /\ Len(getStoredSetlists) < MaxSetlists
    /\ LET l == migrations[p].next
       IN  /\ Finish("createSetlist",
                     createSetlist(getStoredSetlists, convertLegacySetlist(LegacySetlists[l])))
           /\ migrated' = [migrated EXCEPT ![l] = @ + 1]
           /\ migrations' = [migrations EXCEPT ![p] =
                               IF l = Len(LegacySetlists)
                               THEN [pc |-> "done", next |-> 0]
                               ELSE [pc |-> "creating", next |-> l + 1]]
    /\ UNCHANGED started
    /\ UNCHANGED <<tvars, pvars, lvars, cvars>>

\* createSetlist({name, description, songs: []}) from the setlist manager
CreateSetlist ==
    /\ Len(getStoredSetlists) < MaxSetlists
    /\ Finish("createSetlist",
              createSetlist(getStoredSetlists, [name |-> "Sunday", songs |-> <<>>]))
    /\ UNCHANGED <<migrations, migrated, started>>
    /\ UNCHANGED <<tvars, pvars, lvars, cvars>>

DeleteSetlist(id) ==
    /\ Finish("deleteSetlist", deleteSetlist(getStoredSetlists, id))
    /\ UNCHANGED <<migrations, migrated, started>>
    /\ UNCHANGED <<tvars, pvars, lvars, cvars>>

\* clearAllSetlists(): both items are removed; initializeStorage() then finds
\* the version item and writes nothing, or finds none and sets all three
ClearAllSetlists ==
    /\ IF VERSION = Undefined
       THEN /\ SETLISTS' = Some(<<>>)
            /\ METADATA' = Some(<<>>)
            /\ VERSION' = Some(CURRENT_VERSION)
       ELSE /\ SETLISTS' = Undefined
            /\ METADATA' = Undefined
            /\ UNCHANGED VERSION
    /\ outcome' = [call |-> "clearAllSetlists", result |-> "ok"]
    /\ UNCHANGED <<songLibrary, migrations, migrated, started>>
    /\ UNCHANGED <<tvars, pvars, lvars, cvars>>

MNext ==
    \/ \E p \in Callers : MigrateLegacySetlists(p)
    \/ \E p \in Callers : LegacyLoaded(p)
    \/ \E p \in Callers : LegacyLoadFails(p)
    \/ \E p \in Callers : MigrateNext(p)
    \/ CreateSetlist
    \/ \E id \in SetlistIds : DeleteSetlist(id)
    \/ ClearAllSetlists

InitMigration == MInit /\ TransposerIdle /\ ParserIdle /\ LoaderIdle /\ ControlsIdle

SpecMigration == InitMigration /\ [][MNext]_vars

----------------------------------------------------------------------------
(* Claims about the migration *)

\* C22 (as stated): every legacy setlist is created at most once, over any
\* sequence or overlap of migrateLegacySetlists calls and whatever setlists
\* are created, deleted or cleared in between.
MigratedAtMostOnce ==
    \A l \in 1..Len(LegacySetlists) : migrated[l] <= 1

----------------------------------------------------------------------------
(* Further claims about the transposition engine *)

\* C23: for a note token and any n, negative and beyond an octave included,
\* the chromatic index of the transposed note is ((old + n) mod 12 + 12) mod 12,
\* a number in 0..11; tokens that name one pitch have one index, and moved by
\* the same n they give one pitch class.
ChromaticIndexing ==
    (op = "bySemitones" /\ chord \in NoteTokens)
        => LET oldIndex == getNoteIndex(chord)
               newIndex == (JsMod12(oldIndex + semitones) + 12) % 12
           IN  /\ newIndex \in 0..11
               /\ result \in CanonicalNames
               /\ getNoteIndex(result) = newIndex
               /\ PitchClassOf(result) = (PitchClassOf(chord) + semitones) % 12
               /\ \A alias \in NoteTokens :
                     PitchClassOf(alias) = PitchClassOf(chord)
                        => /\ getNoteIndex(alias) = oldIndex
                           /\ getNoteIndex(transposeNote(alias, semitones)) = newIndex

\* C23 witness: "Db" down two semitones passes below C and comes out as "B"
ChromaticIndexingWitness ==
    /\ op = "bySemitones"
    /\ chord = <<"D", "b">>
    /\ semitones = -2
    /\ result = <<"B">>

\* C25 (as stated): a slash chord whose bass part is no note token, such as
\* "C6/9", "C/e" or "G/", is returned unchanged for every n.
InvalidBassPassthrough ==
    (op = "bySemitones" /\ HasSlash(chord) /\ BassOf(chord) \notin NoteTokens)
        => result = chord

----------------------------------------------------------------------------
(* Further claims about song files *)

\* C24: while a Section is open, a line that is not blank and no {...}
\* directive is appended to it exactly when it holds a bracketed chord token
\* or holds no colon. A line with a token is never taken for a heading or a
\* header, even when it ends in ':'; a line with a colon and no token never
\* becomes content. Stated of the last line of a text against the parse of
\* the text before it.
ContentClassification ==
    (pc = "parsed" /\ content # <<>>)
        => LET lines  == Split(content, "\n")
               raw    == lines[Len(lines) - 1]
               line   == Trim(raw)
               before == parseChordPro(SubSeq(content, 1, Len(content) - Len(raw) - 1))
               n      == Len(before.sections)
               appended ==
                   /\ Len(song.sections) = n
                   /\ SubSeq(song.sections, 1, n - 1) = SubSeq(before.sections, 1, n - 1)
                   /\ song.sections[n].name = before.sections[n].name
                   /\ song.sections[n].type = before.sections[n].type
                   /\ Len(song.sections[n].content) = Len(before.sections[n].content) + 1
                   /\ SubSeq(song.sections[n].content, 1, Len(before.sections[n].content))
                        = before.sections[n].content
           IN  (n > 0 /\ line # <<>> /\ ~IsDirectiveLine(line))
                  => /\ appended <=> (HasToken(line) \/ ~HasColon(line))
                     /\ HasToken(line)
                          => /\ song.title = before.title
                             /\ song.artist = before.artist
                             /\ song.originalKey = before.originalKey
                             /\ song.capoPosition = before.capoPosition
                             /\ song.tempo = before.tempo
                     /\ (HasColon(line) /\ ~HasToken(line))
                          => SubSeq(song.sections, 1, n) = before.sections

\* C24 witness: "[G]Verse:" after "Verse 1:" is a line of the verse
ContentClassificationWitness ==
    /\ pc = "parsed"
    /\ content = <<"V", "e", "r", "s", "e", " ", "1", ":">> \o <<"\n">>
                   \o <<"[", "G", "]", "V", "e", "r", "s", "e", ":">> \o <<"\n">>
    /\ Len(song.sections) = 1
    /\ Len(song.sections[1].content) = 1
    /\ song.sections[1].content[1].lyrics = <<"V", "e", "r", "s", "e", ":">>

----------------------------------------------------------------------------
(* Stored songs: a Song in memory whose Line keeps its chord annotations   *)
(* in any order (the Song type does not order them), serialized and parsed *)
(* again                                                                   *)

\* a stored Line has at most MaxChords chord annotations
MaxChords == 3

StoredLyrics ==
    { <<"H", "e", "l", "l", "o">>,          \* "Hello"
      <<"a", " ", "b", "c">> }              \* "a bc"

StoredChordNames == { <<"G">>, <<"A", "m", "7">> }

\* the annotation lists of a Line with these lyrics: pairwise distinct
\* positions within 0..Len(lyrics), in every storage order
StoredChords(lyrics) ==
    UNION { { chords \in [1..k -> [chord : StoredChordNames, position : 0..Len(lyrics)]] :
                \A i, j \in 1..k : i # j => chords[i].position # chords[j].position }
            : k \in 0..MaxChords }

\* a Song of one verse of one Line
StoredSong(lyrics, chords) ==
    [raised |-> FALSE,
     title |-> <<"H", "y", "m", "n">>,
     artist |-> <<"A", "n", "o", "n">>,
     originalKey |-> <<"G">>,
     capoPosition |-> Num(0),
     tempo |-> Undefined,
     sections |-> << [type |-> "verse",
                      name |-> <<"V", "e", "r", "s", "e", " ", "1">>,
                      content |-> << [lyrics |-> lyrics, chords |-> chords] >>] >>]

StoredInit ==
    /\ content = <<>>
    /\ \E lyrics \in StoredLyrics :
          \E chords \in StoredChords(lyrics) : song = StoredSong(lyrics, chords)
    /\ output = <<>>
    /\ song2 = NoSong
    /\ pc = "parsed"

StoredNext ==
    \/ Serialize
    \/ Reparse

InitStoredSong == StoredInit /\ TransposerIdle /\ LoaderIdle /\ StorageIdle /\ ControlsIdle

SpecStoredSong == InitStoredSong /\ [][StoredNext]_vars

----------------------------------------------------------------------------
(* Claims about stored songs *)

\* the text the format prescribes for a Line: going through the lyrics, the
\* [chord] of the annotation at a position stands right before the character
\* at that position (or at the end of the line)
RECURSIVE LineText(_, _, _)
LineText(lyrics, chords, p) ==
    LET here == {i \in 1..Len(chords) : chords[i].position = p}
        token == IF here = {} THEN <<>>
                 ELSE <<"[">> \o chords[CHOOSE i \in here : TRUE].chord \o <<"]">>
    IN  IF p >= Len(lyrics) THEN token
        ELSE token \o <<lyrics[p + 1]>> \o LineText(lyrics, chords, p + 1)

\* the annotations in ascending order of position
ByPosition(chords) ==
    LET at == Ascending({chords[i].position : i \in 1..Len(chords)})
    IN  [j \in 1..Len(at) |->
            chords[CHOOSE i \in 1..Len(chords) : chords[i].position = at[j]]]

\* the stored Line
StoredLine == song.sections[1].content[1]

\* C26: whatever the storage order of a Line's annotations, serialize writes
\* each [chord] right before the lyric character at its position; every
\* permutation of the stored list serializes to the same text; and parsing
\* that text gives the lyrics back with the annotations in ascending order of
\* position.
SerializeInPositionOrder ==
    /\ pc \in {"serialized", "reparsed"}
         => /\ Split(output, "\n")[7] = LineText(StoredLine.lyrics, StoredLine.chords, 0)
            /\ \A f \in Permutations(1..Len(StoredLine.chords)) :
                  songToChordPro(StoredSong(StoredLine.lyrics,
                                            [i \in 1..Len(StoredLine.chords) |->
                                                StoredLine.chords[f[i]]]))
                    = output
    /\ pc = "reparsed"
         => /\ ~song2.raised
            /\ Len(song2.sections) = 1
            /\ Len(song2.sections[1].content) = 1
            /\ song2.sections[1].content[1].lyrics = StoredLine.lyrics
            /\ song2.sections[1].content[1].chords = ByPosition(StoredLine.chords)

\* C26 witness: "Hello" stored with its three annotations in the order of
\* positions 5, 0, 2 is written as "[G]He[Am7]llo[G]" and read back sorted
SerializeInPositionOrderWitness ==
    /\ pc = "reparsed"
    /\ StoredLine.lyrics = <<"H", "e", "l", "l", "o">>
    /\ StoredLine.chords = << [chord |-> <<"G">>, position |-> 5],
                              [chord |-> <<"G">>, position |-> 0],
                              [chord |-> <<"A", "m", "7">>, position |-> 2] >>
    /\ Split(output, "\n")[7]
         = <<"[", "G", "]", "H", "e", "[", "A", "m", "7", "]", "l", "l", "o", "[", "G", "]">>
    /\ song2.sections[1].content[1].chords
         = << [chord |-> <<"G">>, position |-> 0],
              [chord |-> <<"A", "m", "7">>, position |-> 2],
              [chord |-> <<"G">>, position |-> 5] >>

----------------------------------------------------------------------------
(* The transpose and capo controls of PerformanceView and SongsView, and   *)
(* the song's entry in SongOverrideStorage. One song is open in one view;  *)
(* in PerformanceView the song comes with its setlist entry, which may     *)
(* carry a custom key or capo.                                             *)

\* the last MaxTrail transpose presses in a row are remembered
MaxTrail == 2

\* the songs' own keys
SongKeys == { <<"C">>, <<"B", "b">>, <<"E", "b", "m">> }

\* the songs' own capo positions
SongCapos == {0, 2}

\* the setlist entries: no custom setting, a custom key, a custom capo of 0
SetlistEntries ==
    { [customKey |-> Undefined, customCapo |-> Undefined],
      [customKey |-> Some(<<"D">>), customCapo |-> Undefined],
      [customKey |-> Undefined, customCapo |-> Some(0)] }

\* a ?? b
Coalesce(a, b) == IF a # Undefined THEN a[1] ELSE b

\* SongOverrideStorage.get(songId)?.customKey
OverrideKey == IF overrides = Undefined THEN Undefined ELSE overrides[1].customKey

\* SongOverrideStorage.get(songId)?.customCapo
OverrideCapo == IF overrides = Undefined THEN Undefined ELSE overrides[1].customCapo

\* SongOverrideStorage.set(songId, customKey, customCapo): the song's entry
\* afterwards
SongOverrideStorage_set(customKey, customCapo) ==
    IF customKey = Undefined /\ customCapo = Undefined THEN Undefined
    ELSE Some([customKey |-> customKey, customCapo |-> customCapo])

\* SongOverrideStorage.remove(songId): the song's entry afterwards
SongOverrideStorage_remove == Undefined

\* the key a view shows when the song is opened
InitialKey ==
    IF view = "performance"
    THEN StringOr(setlistSong.customKey, StringOr(OverrideKey, selectedSong.originalKey))
    ELSE StringOr(OverrideKey, StringOr(Some(selectedSong.originalKey), <<"C">>))

\* the capo a view shows when the song is opened
InitialCapo ==
    IF view = "performance"
    THEN Coalesce(setlistSong.customCapo, Coalesce(OverrideCapo, selectedSong.capoPosition))
    ELSE Coalesce(OverrideCapo, selectedSong.capoPosition)

\* the setlist entry carries a custom key or a custom capo
SetlistHasCustom ==
    \/ StringOr(setlistSong.customKey, <<>>) # <<>>
    \/ setlistSong.customCapo # Undefined

\* a variant that stores an entry whatever the values are
saveSelectedSongOverride_AlwaysSet(newKey, newCapo) ==
    SongOverrideStorage_set(Some(newKey), Some(newCapo))

\* SongsView.saveSelectedSongOverride(newKey, newCapo): the song's entry
\* afterwards
saveSelectedSongOverride(newKey, newCapo) ==
    LET isKeyDifferent  == newKey # selectedSong.originalKey
        isCapoDifferent == newCapo # selectedSong.capoPosition
    IN  IF isKeyDifferent \/ isCapoDifferent
        THEN SongOverrideStorage_set(IF isKeyDifferent THEN Some(newKey) ELSE Undefined,
                                     IF isCapoDifferent THEN Some(newCapo) ELSE Undefined)
        ELSE SongOverrideStorage_remove

\* PerformanceView.saveOverrides(key, capo): the song's entry afterwards
saveOverrides(key, capo) ==
    IF SetlistHasCustom THEN overrides
    ELSE LET isKeyDifferent  == key # selectedSong.originalKey
             isCapoDifferent == capo # selectedSong.capoPosition
         IN  IF isKeyDifferent \/ isCapoDifferent
             THEN SongOverrideStorage_set(IF isKeyDifferent THEN Some(key) ELSE Undefined,
                                          IF isCapoDifferent THEN Some(capo) ELSE Undefined)
             ELSE SongOverrideStorage_remove

\* the view's setter of the key and the capo, and its save function
Show(key, capo) ==
    /\ currentKey' = key
    /\ currentCapo' = capo
    /\ overrides' = IF view = "performance" THEN saveOverrides(key, capo)
                    ELSE saveSelectedSongOverride(key, capo)
    /\ UNCHANGED <<view, selectedSong, setlistSong>>

\* the trail after a transpose press: the press and the key before it, the
\* oldest press dropped
Pressed(control) ==
    LET longer == Append(trail, [control |-> control, key |-> currentKey])
    IN  IF Len(longer) > MaxTrail THEN Tail(longer) ELSE longer

\* a song without an override is opened in a view
CInit ==
    /\ view \in {"performance", "songs"}
    /\ \E k \in SongKeys, c \in SongCapos :
          /\ selectedSong = [originalKey |-> k, capoPosition |-> c]
          /\ \E entry \in SetlistEntries :
                /\ view = "songs" => entry = [customKey |-> Undefined, customCapo |-> Undefined]
                /\ setlistSong = entry
                /\ currentKey = StringOr(entry.customKey, k)
                /\ currentCapo = Coalesce(entry.customCapo, c)
    /\ overrides = Undefined
    /\ trail = <<>>

\* the song is opened again: handleViewSong, or the effect on currentSong
OpenSong ==
    /\ currentKey' = InitialKey
    /\ currentCapo' = InitialCapo
    /\ trail' = <<>>
    /\ UNCHANGED <<view, selectedSong, setlistSong, overrides>>
    /\ UNCHANGED <<tvars, pvars, lvars, svars>>

transposeUp ==
    /\ Show(transposeChordBySemitones(currentKey, 1), currentCapo)
    /\ trail' = Pressed("transposeUp")
    /\ UNCHANGED <<tvars, pvars, lvars, svars>>

transposeDown ==
    /\ Show(transposeChordBySemitones(currentKey, -1), currentCapo)
    /\ trail' = Pressed("transposeDown")
    /\ UNCHANGED <<tvars, pvars, lvars, svars>>

capoUp ==
    /\ currentCapo < 12
    /\ Show(currentKey, currentCapo + 1)
    /\ trail' = <<>>
    /\ UNCHANGED <<tvars, pvars, lvars, svars>>

capoDown ==
    /\ currentCapo > 0
    /\ Show(currentKey, currentCapo - 1)
    /\ trail' = <<>>
    /\ UNCHANGED <<tvars, pvars, lvars, svars>>

\* resetToOriginal: PerformanceView goes back to the setlist entry's values
\* and removes the override unless the entry has a custom key or a custom
\* capo other than 0; SongsView goes back to the song's values and removes it
resetToOriginal ==
    /\ IF view = "performance"
       THEN /\ currentKey' = StringOr(setlistSong.customKey, selectedSong.originalKey)
            /\ currentCapo' = Coalesce(setlistSong.customCapo, selectedSong.capoPosition)
            /\ overrides' = IF StringOr(setlistSong.customKey, <<>>) = <<>>
                               /\ Coalesce(setlistSong.customCapo, 0) = 0
                            THEN SongOverrideStorage_remove
                            ELSE overrides
       ELSE /\ currentKey' = selectedSong.originalKey
            /\ currentCapo' = selectedSong.capoPosition
            /\ overrides' = SongOverrideStorage_remove
    /\ trail' = <<>>
    /\ UNCHANGED <<view, selectedSong, setlistSong>>
    /\ UNCHANGED <<tvars, pvars, lvars, svars>>

CNext ==
    \/ OpenSong
    \/ transposeUp
    \/ transposeDown
    \/ capoUp
    \/ capoDown
    \/ resetToOriginal

InitControls == CInit /\ TransposerIdle /\ ParserIdle /\ LoaderIdle /\ StorageIdle

SpecControls == InitControls /\ [][CNext]_vars

----------------------------------------------------------------------------
(* Claims about the controls *)

\* the song's setlist entry has no custom key and no custom capo
NoCustom == setlistSong = [customKey |-> Undefined, customCapo |-> Undefined]

\* C27 (as stated): transposeUp then transposeDown, and transposeDown then
\* transposeUp, restore the key string the view showed before, for every
\* starting key; when that is the song's own key and the capo is the song's
\* own capo, no override remains stored.
TransposeUndo ==
    (NoCustom /\ Len(trail) >= 2
       /\ <<trail[Len(trail) - 1].control, trail[Len(trail)].control>>
            \in {<<"transposeUp", "transposeDown">>, <<"transposeDown", "transposeUp">>})
        => /\ currentKey = trail[Len(trail) - 1].key
           /\ (trail[Len(trail) - 1].key = selectedSong.originalKey
                 /\ currentCapo = selectedSong.capoPosition)
                => overrides = Undefined

\* C28: for a song whose setlist entry has no custom key or capo, an override
\* is stored exactly when the key or the capo shown differs from the song's
\* own, and opening the song again shows exactly the key and capo shown now.
OverrideMirrorsControls ==
    (view # "off" /\ NoCustom)
        => /\ overrides # Undefined
                <=> (currentKey # selectedSong.originalKey
                       \/ currentCapo # selectedSong.capoPosition)
           /\ InitialKey = currentKey
           /\ InitialCapo = currentCapo

\* C28 witness: "Bb" with capo 2, up one semitone and the capo down to 0
OverrideMirrorsControlsWitness ==
    /\ view = "performance"
    /\ NoCustom
    /\ selectedSong = [originalKey |-> <<"B", "b">>, capoPosition |-> 2]
    /\ currentKey = <<"B">>
    /\ currentCapo = 0
    /\ overrides = Some([customKey |-> Some(<<"B">>), customCapo |-> Some(0)])

----------------------------------------------------------------------------
(* Further claims about the songs of a setlist *)

----------------------------------------------------------------------------
(* The setlist manager: all the calls of the storage service on up to      *)
(* MaxSetlists setlists                                                    *)

\* what importSetlists is handed: a text that is no export, or an export of
\* one setlist
ImportData ==
    { Undefined,
      Some(<< [name |-> "Sunday",
               songs |-> << [songId |-> "how-great-thou-art", order |-> 0] >>] >>) }

UpdateSetlist(id) ==
    /\ Finish("updateSetlist", updateSetlist(getStoredSetlists, id, [name |-> "Evening"]))
    /\ UNCHANGED <<migrations, migrated, started>>
    /\ UNCHANGED <<tvars, pvars, lvars, cvars>>

DuplicateSetlist(id) ==
    /\ getSetlist(getStoredSetlists, id) # Undefined
         => Len(getStoredSetlists) < MaxSetlists
    /\ Finish("duplicateSetlist",
              duplicateSetlist(getStoredSetlists, id, "Sunday (Copy)"))
    /\ UNCHANGED <<migrations, migrated, started>>
    /\ UNCHANGED <<tvars, pvars, lvars, cvars>>

ImportSetlists ==
    /\ \E data \in ImportData :
          /\ data # Undefined
               => Len(getStoredSetlists) + Len(data[1]) <= MaxSetlists
          /\ Finish("importSetlists", importSetlists(getStoredSetlists, data))
    /\ UNCHANGED <<migrations, migrated, started>>
    /\ UNCHANGED <<tvars, pvars, lvars, cvars>>

\* the storage was initialised and one song is in the library (an imported
\* setlist brings another)
ManagerInit ==
    /\ StorageReady
    /\ songLibrary = {"amazing-grace"}
    /\ outcome = [call |-> "constructor", result |-> "ok"]
    /\ NoMigration

ManagerNext ==
    \/ CreateSetlist
    \/ \E id \in SetlistIds : UpdateSetlist(id)
    \/ \E id \in SetlistIds : DeleteSetlist(id)
    \/ \E id \in SetlistIds : DuplicateSetlist(id)
    \/ \E id \in SetlistIds, songId \in songLibrary : AddSongToSetlist(id, songId)
    \/ \E id \in SetlistIds, songId \in songLibrary : RemoveSongFromSetlist(id, songId)
    \/ \E id \in SetlistIds : ReorderSetlistSongs(id)
    \/ ImportSetlists
    \/ ClearAllSetlists

InitSetlists == ManagerInit /\ TransposerIdle /\ ParserIdle /\ LoaderIdle /\ ControlsIdle

SpecSetlists == InitSetlists /\ [][ManagerNext]_vars

----------------------------------------------------------------------------
(* Claims about the setlist manager *)

\* C30: after every call of the storage service, getAllSetlists has one entry
\* per stored setlist, with the same ids in the same order, the same name and
\* songCount equal to the number of its songs; and deleteSetlist of an id
\* that is not stored returns false and saves nothing.
MetadataMirrorsSetlists ==
    /\ Len(getAllSetlists) = Len(getStoredSetlists)
    /\ \A i \in 1..Len(getStoredSetlists) :
          /\ getAllSetlists[i].id = getStoredSetlists[i].id
          /\ getAllSetlists[i].name = getStoredSetlists[i].name
          /\ getAllSetlists[i].songCount = Len(getStoredSetlists[i].songs)
    /\ \A id \in SetlistIds :
          (\A i \in 1..Len(getStoredSetlists) : getStoredSetlists[i].id # id)
             => LET r == deleteSetlist(getStoredSetlists, id)
                IN  r.error = "" /\ r.value = "false" /\ r.saved = Undefined
    /\ outcome = [call |-> "deleteSetlist", result |-> "false"]
         => Len(getStoredSetlists) < MaxSetlists

\* C30 witness: a renamed setlist of two songs and its copy
MetadataMirrorsSetlistsWitness ==
    /\ outcome = [call |-> "duplicateSetlist", result |-> "ok"]
    /\ getAllSetlists = << [id |-> 1, name |-> "Evening", songCount |-> 2],
                           [id |-> 2, name |-> "Sunday (Copy)", songCount |-> 2] >>
    /\ Len(getStoredSetlists[2].songs) = 2

====
